---- MODULE Spec2Model ----
(***************************************************************************)
(* A model of the vSphere VM lifecycle core (package vsphere_mcp): the     *)
(* process-wide connection, the parameter validators, the error            *)
(* classifier, and the clone / reconfigure / listing operations, each      *)
(* modelled as one atomic handler call on the invoking thread.             *)
(*                                                                         *)
(* Python values are encoded as follows.                                   *)
(*   str            a sequence of one-character strings                    *)
(*   Optional[T]    None == <<>>, Some(v) == <<v>>                         *)
(*   enum members, parameter names, tool names: TLA+ strings               *)
(* The Chinese message and suggestion literals of the source are rendered  *)
(* in English; no code path inspects them.                                 *)
(***************************************************************************)
EXTENDS Integers, Sequences, FiniteSets, TLC

VARIABLES
    PYVMOMI_AVAILABLE,  \* client/vsphere.py:13-19, fixed at import time
    _vsphere_client,     \* the global _vsphere_client: None or Some(client id)
    clients,            \* client id -> [connection: None or Some(session id)]
    sessions,           \* session ids open on the remote platform
    powerState,         \* remote state: VirtualMachine index -> runtime.powerState
    call,               \* the handler call just executed (None when idle)
    result,             \* what that call did: an envelope, or a propagated exception
    calls,              \* the remote interactions that call performed, in order
    submitted,          \* the specs that call handed to Clone / ReconfigVM_Task
    error_msg,          \* classifier study: the exception message
    operation,          \* classifier study: the operation context
    classified,         \* classifier study: the MCPError returned (None before)
    acquiring,          \* concurrent acquisition: thread -> its place in get_vsphere_client
    again,              \* what the same listing call did when issued a second time
    walking             \* _get_folder_path in progress: its input and its locals (None outside)

vars == <<PYVMOMI_AVAILABLE, _vsphere_client, clients, sessions, powerState,
          call, result, calls, submitted, error_msg, operation, classified,
          acquiring, again, walking>>

----------------------------------------------------------------------------
(* Python values *)

None == <<>>
Some(v) == <<v>>
Val(o) == o[1]

\* truthiness of an Optional[str] / Optional[int] (`if x:`)
TruthyStr(o) == o # None /\ Val(o) # <<>>
TruthyInt(o) == o # None /\ Val(o) # 0

UpperToLower == {
    [u |-> "A", l |-> "a"],
    [u |-> "B", l |-> "b"],
    [u |-> "C", l |-> "c"],
    [u |-> "D", l |-> "d"],
    [u |-> "E", l |-> "e"],
    [u |-> "F", l |-> "f"],
    [u |-> "G", l |-> "g"],
    [u |-> "H", l |-> "h"],
    [u |-> "I", l |-> "i"],
    [u |-> "J", l |-> "j"],
    [u |-> "K", l |-> "k"],
    [u |-> "L", l |-> "l"],
    [u |-> "M", l |-> "m"],
    [u |-> "N", l |-> "n"],
    [u |-> "O", l |-> "o"],
    [u |-> "P", l |-> "p"],
    [u |-> "Q", l |-> "q"],
    [u |-> "R", l |-> "r"],
    [u |-> "S", l |-> "s"],
    [u |-> "T", l |-> "t"],
    [u |-> "U", l |-> "u"],
    [u |-> "V", l |-> "v"],
    [u |-> "W", l |-> "w"],
    [u |-> "X", l |-> "x"],
    [u |-> "Y", l |-> "y"],
    [u |-> "Z", l |-> "z"]}

\* str.lower() restricted to ASCII letters; every other character is kept
LowerChar(c) ==
    IF \E p \in UpperToLower : p.u = c
    THEN (CHOOSE p \in UpperToLower : p.u = c).l
    ELSE c
Lower(s) == [i \in 1..Len(s) |-> LowerChar(s[i])]

\* `sub in s` on str
Contains(s, sub) ==
    \E i \in 0..(Len(s) - Len(sub)) : SubSeq(s, i + 1, i + Len(sub)) = sub

\* n copies of the character c
Rep(c, n) == [i \in 1..n |-> c]

----------------------------------------------------------------------------
(* String literals *)

\* Keywords of parse_vsphere_error (utils/errors.py:61-113)
KwConnection == <<"c", "o", "n", "n", "e", "c", "t", "i", "o", "n">>
KwTimeout == <<"t", "i", "m", "e", "o", "u", "t">>
KwPermission == <<"p", "e", "r", "m", "i", "s", "s", "i", "o", "n">>
KwAccess == <<"a", "c", "c", "e", "s", "s">>
KwUnauthorized == <<"u", "n", "a", "u", "t", "h", "o", "r", "i", "z", "e", "d">>
KwNotFound == <<"n", "o", "t", " ", "f", "o", "u", "n", "d">>
KwNotExist == <<"n", "o", "t", " ", "e", "x", "i", "s", "t">>
KwInsufficient == <<"i", "n", "s", "u", "f", "f", "i", "c", "i", "e", "n", "t">>
KwQuota == <<"q", "u", "o", "t", "a">>
KwCapacity == <<"c", "a", "p", "a", "c", "i", "t", "y">>
KwDuplicate == <<"d", "u", "p", "l", "i", "c", "a", "t", "e">>
KwConflict == <<"c", "o", "n", "f", "l", "i", "c", "t">>
KwAlreadyExists == <<"a", "l", "r", "e", "a", "d", "y", " ", "e", "x", "i", "s", "t", "s">>
KwTemplate == <<"t", "e", "m", "p", "l", "a", "t", "e">>
KwHost == <<"h", "o", "s", "t">>
KwCluster == <<"c", "l", "u", "s", "t", "e", "r">>

\* Operation contexts handed to parse_vsphere_error by its callers
OpConnect == <<"c", "o", "n", "n", "e", "c", "t">>
OpCloneVm == <<"c", "l", "o", "n", "e", "_", "v", "m">>
OpReconfigureVm == <<"r", "e", "c", "o", "n", "f", "i", "g", "u", "r", "e", "_", "v", "m">>
OpGetVmPowerState == <<"g", "e", "t", "_", "v", "m", "_", "p", "o", "w", "e", "r", "_", "s", "t", "a", "t", "e">>
OpDescribeTemplates == <<"d", "e", "s", "c", "r", "i", "b", "e", "_", "t", "e", "m", "p", "l", "a", "t", "e", "s">>
OpDescribeHosts == <<"d", "e", "s", "c", "r", "i", "b", "e", "_", "h", "o", "s", "t", "s">>
OpDescribeClusters == <<"d", "e", "s", "c", "r", "i", "b", "e", "_", "c", "l", "u", "s", "t", "e", "r", "s">>
OpDescribeFolders == <<"d", "e", "s", "c", "r", "i", "b", "e", "_", "f", "o", "l", "d", "e", "r", "s">>
OpDescribeResourcePools == <<"d", "e", "s", "c", "r", "i", "b", "e", "_", "r", "e", "s", "o", "u", "r", "c", "e", "_", "p", "o", "o", "l", "s">>
OpDescribeNetworks == <<"d", "e", "s", "c", "r", "i", "b", "e", "_", "n", "e", "t", "w", "o", "r", "k", "s">>
OpDescribeVms == <<"d", "e", "s", "c", "r", "i", "b", "e", "_", "v", "m", "s">>

\* Message prefixes of parse_vsphere_error
PrefixConnection == <<"C", "a", "n", "n", "o", "t", " ", "c", "o", "n", "n", "e", "c", "t", " ", "t", "o", " ", "v", "S", "p", "h", "e", "r", "e", ":", " ">>
PrefixPermission == <<"P", "e", "r", "m", "i", "s", "s", "i", "o", "n", " ", "d", "e", "n", "i", "e", "d", ":", " ">>
PrefixApi == <<"v", "S", "p", "h", "e", "r", "e", " ", "o", "p", "e", "r", "a", "t", "i", "o", "n", " ", "f", "a", "i", "l", "e", "d", ":", " ">>
MsgTemplateMissing == <<"T", "h", "e", " ", "g", "i", "v", "e", "n", " ", "t", "e", "m", "p", "l", "a", "t", "e", " ", "d", "o", "e", "s", " ", "n", "o", "t", " ", "e", "x", "i", "s", "t">>
MsgHostMissing == <<"T", "h", "e", " ", "g", "i", "v", "e", "n", " ", "h", "o", "s", "t", " ", "d", "o", "e", "s", " ", "n", "o", "t", " ", "e", "x", "i", "s", "t">>
MsgClusterMissing == <<"T", "h", "e", " ", "g", "i", "v", "e", "n", " ", "c", "l", "u", "s", "t", "e", "r", " ", "d", "o", "e", "s", " ", "n", "o", "t", " ", "e", "x", "i", "s", "t">>
MsgQuota == <<"I", "n", "s", "u", "f", "f", "i", "c", "i", "e", "n", "t", " ", "r", "e", "s", "o", "u", "r", "c", "e", "s">>
MsgNameExists == <<"T", "h", "e", " ", "V", "M", " ", "n", "a", "m", "e", " ", "a", "l", "r", "e", "a", "d", "y", " ", "e", "x", "i", "s", "t", "s">>

\* Messages of the exceptions Python raises inside the operations
MsgTypeError2 == <<"B", "a", "s", "e", "M", "o", "d", "e", "l", ".", "_", "_", "i", "n", "i", "t", "_", "_", "(", ")", " ", "t", "a", "k", "e", "s", " ", "1", " ", "p", "o", "s", "i", "t", "i", "o", "n", "a", "l", " ", "a", "r", "g", "u", "m", "e", "n", "t", " ", "b", "u", "t", " ", "3", " ", "w", "e", "r", "e", " ", "g", "i", "v", "e", "n">>
MsgAttributeError311 == <<"I", "N", "V", "A", "L", "I", "D", "_", "O", "P", "E", "R", "A", "T", "I", "O", "N">>
MsgAttributeError312 == <<"t", "y", "p", "e", " ", "o", "b", "j", "e", "c", "t", " ", "'", "E", "r", "r", "o", "r", "T", "y", "p", "e", "'", " ", "h", "a", "s", " ", "n", "o", " ", "a", "t", "t", "r", "i", "b", "u", "t", "e", " ", "'", "I", "N", "V", "A", "L", "I", "D", "_", "O", "P", "E", "R", "A", "T", "I", "O", "N", "'">>

\* Messages a remote call may raise
MsgConnReset == <<"C", "o", "n", "n", "e", "c", "t", "i", "o", "n", " ", "r", "e", "s", "e", "t", " ", "b", "y", " ", "p", "e", "e", "r">>
MsgNoPermission == <<"P", "e", "r", "m", "i", "s", "s", "i", "o", "n", " ", "t", "o", " ", "p", "e", "r", "f", "o", "r", "m", " ", "t", "h", "i", "s", " ", "o", "p", "e", "r", "a", "t", "i", "o", "n", " ", "w", "a", "s", " ", "d", "e", "n", "i", "e", "d", ".">>
MsgTplNotFound == <<"T", "e", "m", "p", "l", "a", "t", "e", " ", "x", "y", "z", " ", "n", "o", "t", " ", "f", "o", "u", "n", "d">>
MsgQuotaNotFound == <<"D", "a", "t", "a", "s", "t", "o", "r", "e", " ", "n", "o", "t", " ", "f", "o", "u", "n", "d", ":", " ", "i", "n", "s", "u", "f", "f", "i", "c", "i", "e", "n", "t", " ", "c", "a", "p", "a", "c", "i", "t", "y">>
MsgAlreadyExists == <<"T", "h", "e", " ", "n", "a", "m", "e", " ", "'", "w", "e", "b", "-", "0", "1", "'", " ", "a", "l", "r", "e", "a", "d", "y", " ", "e", "x", "i", "s", "t", "s", ".">>
MsgGeneric == <<"A", " ", "g", "e", "n", "e", "r", "a", "l", " ", "s", "y", "s", "t", "e", "m", " ", "e", "r", "r", "o", "r", " ", "o", "c", "c", "u", "r", "r", "e", "d">>
MsgTimeoutNotExist == <<"T", "i", "m", "e", "o", "u", "t", ":", " ", "o", "b", "j", "e", "c", "t", " ", "d", "o", "e", "s", " ", "n", "o", "t", " ", "e", "x", "i", "s", "t">>

\* Inventory and request names
Web01 == <<"w", "e", "b", "-", "0", "1">>
Db01 == <<"d", "b", "-", "0", "1">>
Bare01 == <<"b", "a", "r", "e", "-", "0", "1">>
UbuntuTpl == <<"u", "b", "u", "n", "t", "u", "-", "t", "p", "l">>
WinTpl == <<"w", "i", "n", "-", "t", "p", "l">>
Cluster01 == <<"C", "l", "u", "s", "t", "e", "r", "0", "1">>
Cluster02 == <<"C", "l", "u", "s", "t", "e", "r", "0", "2">>
PoolA == <<"p", "o", "o", "l", "-", "a">>
Resources == <<"R", "e", "s", "o", "u", "r", "c", "e", "s">>
FolderProd == <<"p", "r", "o", "d">>
FolderTemplates == <<"t", "e", "m", "p", "l", "a", "t", "e", "s">>
VmNetwork == <<"V", "M", " ", "N", "e", "t", "w", "o", "r", "k">>
DvsPg == <<"d", "v", "s", "-", "p", "g">>
Nope == <<"n", "o", "p", "e">>
GuestUbuntu == <<"u", "b", "u", "n", "t", "u", "6", "4", "G", "u", "e", "s", "t">>
GuestWindows == <<"w", "i", "n", "d", "o", "w", "s", "9", "S", "e", "r", "v", "e", "r", "6", "4", "G", "u", "e", "s", "t">>



DigitSeq == <<"0", "1", "2", "3", "4", "5", "6", "7", "8", "9">>

\* str(n) for an int
RECURSIVE NatStr(_)
NatStr(n) == IF n < 10 THEN <<DigitSeq[n + 1]>> ELSE NatStr(n \div 10) \o <<DigitSeq[(n % 10) + 1]>>
IntStr(n) == IF n < 0 THEN <<"-">> \o NatStr(-n) ELSE NatStr(n)

\* the character class [a-zA-Z0-9_-]
NameChars == {
    "a", "b", "c", "d", "e", "f", "g", "h", "i", "j", "k", "l", "m", "n",
    "o", "p", "q", "r", "s", "t", "u", "v", "w", "x", "y", "z", "A", "B",
    "C", "D", "E", "F", "G", "H", "I", "J", "K", "L", "M", "N", "O", "P",
    "Q", "R", "S", "T", "U", "V", "W", "X", "Y", "Z", "0", "1", "2", "3",
    "4", "5", "6", "7", "8", "9", "_", "-" }

----------------------------------------------------------------------------
(* models/base.py *)

ErrorType == {
    "MISSING_PARAMETER", "INVALID_PARAMETER", "RESOURCE_NOT_FOUND",
    "PERMISSION_DENIED", "QUOTA_EXCEEDED", "DEPENDENCY_MISSING",
    "API_ERROR", "PRECONDITION_FAILED", "CONNECTION_ERROR" }

\* A raised Python exception: its class and str(e)
Exc(type, msg) == [type |-> type, msg |-> msg]

\* MCPError(error_type=..., message=..., parameter=..., suggestion=..., related_tools=...)
MCPError(error_type, message, parameter, suggestion, related_tools) ==
    [ error_type    |-> error_type,
      message       |-> message,
      parameter     |-> parameter,
      suggestion    |-> suggestion,
      related_tools |-> related_tools ]

\* MCPError(ErrorType.X, "...") with positional arguments: the pydantic
\* BaseModel constructor takes keyword arguments only and raises TypeError
MCPErrorPositional == Exc("TypeError", MsgTypeError2)

\* A Python value handed to MCPResult(error=...), with its runtime type
PyNone == [py |-> "NoneType", v |-> None]
PyMCPError(e) == [py |-> "MCPError", v |-> Some(e)]
PyStr(s) == [py |-> "str", v |-> Some(s)]

\* What a handler call yields: a returned MCPResult, or an exception that
\* leaves the handler.  The envelope's error field keeps the Python value it
\* was given
Returned(success, data, error, request_id) ==
    [ kind       |-> "envelope",
      success    |-> success,
      data       |-> data,
      error      |-> error,
      request_id |-> request_id,
      exception  |-> None ]
Propagated(e) ==
    [ kind       |-> "raised",
      success    |-> FALSE,
      data       |-> None,
      error      |-> PyNone,
      request_id |-> None,
      exception  |-> Some(e) ]

\* MCPResult built without validating its fields (as model_construct would):
\* the variant in which a str passed as error reaches the caller
MCPResultUnvalidated(success, data, error, request_id) ==
    Returned(success, data, error, request_id)

\* MCPResult(success=..., data=..., error=..., request_id=...): the field
\* `error: Optional[MCPError]` is validated on construction
MCPResult(success, data, error, request_id) ==
    IF error.py \in {"NoneType", "MCPError"}
    THEN Returned(success, data, error, request_id)
    ELSE Propagated(Exc("ValidationError", <<"1", " ", "v", "a", "l", "i", "d", "a", "t", "i", "o", "n", " ", "e", "r", "r", "o", "r", " ", "f", "o", "r", " ", "M", "C", "P", "R", "e", "s", "u", "l", "t">>))

----------------------------------------------------------------------------
(* utils/errors.py *)

TOOL_DESCRIBE_TEMPLATES == "describeTemplates"
TOOL_DESCRIBE_HOSTS == "describeHosts"
TOOL_DESCRIBE_CLUSTERS == "describeClusters"
TOOL_DESCRIBE_FOLDERS == "describeFolders"
TOOL_DESCRIBE_RESOURCE_POOLS == "describeResourcePools"
TOOL_DESCRIBE_NETWORKS == "describeNetworks"

\* the `if 'not found' in ...` block: its three operation branches, and
\* None when none of them returns (control falls through to the next rule)
\* the not-found branch with a kind of its own making
NotFoundBranchOwnKind(op) ==
    IF Contains(Lower(op), KwTemplate)
    THEN Some(MCPError("TEMPLATE_NOT_FOUND", MsgTemplateMissing, Some("template_name"),
                       "use describeTemplates to list the templates", Some(<<TOOL_DESCRIBE_TEMPLATES>>)))
    ELSE IF Contains(Lower(op), KwHost)
    THEN Some(MCPError("HOST_NOT_FOUND", MsgHostMissing, Some("host_name"),
                       "use describeHosts to list the hosts", Some(<<TOOL_DESCRIBE_HOSTS>>)))
    ELSE IF Contains(Lower(op), KwCluster)
    THEN Some(MCPError("CLUSTER_NOT_FOUND", MsgClusterMissing, Some("cluster_name"),
                       "use describeClusters to list the clusters", Some(<<TOOL_DESCRIBE_CLUSTERS>>)))
    ELSE None

NotFoundBranch(op) ==
    IF Contains(Lower(op), KwTemplate)
    THEN Some(MCPError("RESOURCE_NOT_FOUND", MsgTemplateMissing, Some("template_name"),
                       "use describeTemplates to list the templates", Some(<<TOOL_DESCRIBE_TEMPLATES>>)))
    ELSE IF Contains(Lower(op), KwHost)
    THEN Some(MCPError("RESOURCE_NOT_FOUND", MsgHostMissing, Some("host_name"),
                       "use describeHosts to list the hosts", Some(<<TOOL_DESCRIBE_HOSTS>>)))
    ELSE IF Contains(Lower(op), KwCluster)
    THEN Some(MCPError("RESOURCE_NOT_FOUND", MsgClusterMissing, Some("cluster_name"),
                       "use describeClusters to list the clusters", Some(<<TOOL_DESCRIBE_CLUSTERS>>)))
    ELSE None

parse_vsphere_error(error, op) ==
    LET msg == error.msg
        low == Lower(msg)
    IN  IF Contains(low, KwConnection) \/ Contains(low, KwTimeout)
        THEN MCPError("CONNECTION_ERROR", PrefixConnection \o msg, None,
                      "check the vSphere host address, port and network", Some(<<>>))
        ELSE IF Contains(low, KwPermission) \/ Contains(low, KwAccess)
                \/ Contains(low, KwUnauthorized)
        THEN MCPError("PERMISSION_DENIED", PrefixPermission \o msg, None,
                      "check the user name, password and permissions", None)
        ELSE IF (Contains(low, KwNotFound) \/ Contains(low, KwNotExist))
                /\ NotFoundBranch(op) # None
        THEN Val(NotFoundBranch(op))
        ELSE IF Contains(low, KwInsufficient) \/ Contains(low, KwQuota)
                \/ Contains(low, KwCapacity)
        THEN MCPError("QUOTA_EXCEEDED", MsgQuota, None,
                      "check the host resource usage, or pick another host/cluster", None)
        ELSE IF Contains(low, KwDuplicate) \/ Contains(low, KwConflict)
                \/ Contains(low, KwAlreadyExists)
        THEN MCPError("INVALID_PARAMETER", MsgNameExists, Some("vm_name"),
                      "use a different VM name", None)
        ELSE MCPError("API_ERROR", PrefixApi \o msg, None,
                      "check the parameters, or retry later", None)

----------------------------------------------------------------------------
(* utils/validators.py *)

\* re.match(r'^[a-zA-Z0-9_-]+$', s): one or more name characters, then the
\* end of the string or a single newline that ends the string
ReMatchName(s) ==
    \E n \in 1..Len(s) :
        /\ \A i \in 1..n : s[i] \in NameChars
        /\ \/ n = Len(s)
           \/ n = Len(s) - 1 /\ s[Len(s)] = "\n"

MinNameLen == 3
MaxNameLen == 80

validate_vm_name(vm_name) ==
    IF vm_name = <<>>
    THEN Some(MCPError("MISSING_PARAMETER", <<"M", "i", "s", "s", "i", "n", "g", " ", "r", "e", "q", "u", "i", "r", "e", "d", " ", "p", "a", "r", "a", "m", "e", "t", "e", "r", ":", " ", "v", "m", "_", "n", "a", "m", "e", " ", "(", "V", "M", " ", "n", "a", "m", "e", ")">>,
                       Some("vm_name"), "give a valid VM name, such as 'web-server-01'", None))
    ELSE IF Len(vm_name) < MinNameLen \/ Len(vm_name) > MaxNameLen
    THEN Some(MCPError("INVALID_PARAMETER",
                       <<"T", "h", "e", " ", "V", "M", " ", "n", "a", "m", "e", " ", "m", "u", "s", "t", " ", "b", "e", " ", "3", "-", "8", "0", " ", "c", "h", "a", "r", "a", "c", "t", "e", "r", "s", " ", "l", "o", "n", "g", ":", " ", "'">> \o vm_name \o <<"'">>,
                       Some("vm_name"), "use a name of 3-80 characters", None))
    ELSE IF ~ReMatchName(vm_name)
    THEN Some(MCPError("INVALID_PARAMETER",
                       <<"T", "h", "e", " ", "V", "M", " ", "n", "a", "m", "e", " ", "c", "o", "n", "t", "a", "i", "n", "s", " ", "i", "n", "v", "a", "l", "i", "d", " ", "c", "h", "a", "r", "a", "c", "t", "e", "r", "s", ":", " ", "'">> \o vm_name \o <<"'">>,
                       Some("vm_name"), "use letters, digits, underscores and hyphens", None))
    ELSE None

validate_template_name(template_name) ==
    IF template_name = <<>>
    THEN Some(MCPError("MISSING_PARAMETER", <<"M", "i", "s", "s", "i", "n", "g", " ", "r", "e", "q", "u", "i", "r", "e", "d", " ", "p", "a", "r", "a", "m", "e", "t", "e", "r", ":", " ", "t", "e", "m", "p", "l", "a", "t", "e", "_", "n", "a", "m", "e", " ", "(", "t", "e", "m", "p", "l", "a", "t", "e", " ", "n", "a", "m", "e", ")">>,
                       Some("template_name"), "first use describeTemplates to list the templates",
                       Some(<<TOOL_DESCRIBE_TEMPLATES>>)))
    ELSE None

validate_cluster_name(cluster_name) ==
    IF cluster_name = <<>>
    THEN Some(MCPError("MISSING_PARAMETER", <<"M", "i", "s", "s", "i", "n", "g", " ", "r", "e", "q", "u", "i", "r", "e", "d", " ", "p", "a", "r", "a", "m", "e", "t", "e", "r", ":", " ", "c", "l", "u", "s", "t", "e", "r", "_", "n", "a", "m", "e", " ", "(", "c", "l", "u", "s", "t", "e", "r", " ", "n", "a", "m", "e", ")">>,
                       Some("cluster_name"), "first use describeClusters to list the clusters",
                       Some(<<TOOL_DESCRIBE_CLUSTERS>>)))
    ELSE None

\* imported by tools/lifecycle.py:17 from utils, which does not define it;
\* the optional network name is taken to pass
validate_network_name(network_name) == None

MinCpu == 1
MaxCpu == 128
MinMemoryMb == 512
MaxMemoryMb == 1048576

\* validate_cpu_memory with its two checks in the other order
validate_cpu_memory_memory_first(cpu, memory) ==
    IF TruthyInt(memory) /\ (Val(memory) < MinMemoryMb \/ Val(memory) > MaxMemoryMb)
    THEN Some(MCPError("INVALID_PARAMETER", <<"T", "h", "e", " ", "m", "e", "m", "o", "r", "y", " ", "s", "i", "z", "e", " ", "m", "u", "s", "t", " ", "b", "e", " ", "w", "i", "t", "h", "i", "n", " ", "5", "1", "2", "M", "B", "-", "1", "T", "B", ":", " ">> \o IntStr(Val(memory)) \o <<"M", "B">>,
                       Some("memory"), "bring the memory size into the valid range", None))
    ELSE IF TruthyInt(cpu) /\ (Val(cpu) < MinCpu \/ Val(cpu) > MaxCpu)
    THEN Some(MCPError("INVALID_PARAMETER", <<"T", "h", "e", " ", "C", "P", "U", " ", "c", "o", "u", "n", "t", " ", "m", "u", "s", "t", " ", "b", "e", " ", "w", "i", "t", "h", "i", "n", " ", "1", "-", "1", "2", "8", ":", " ">> \o IntStr(Val(cpu)),
                       Some("cpu"), "bring the CPU count into the valid range", None))
    ELSE None

validate_cpu_memory(cpu, memory) ==
    IF TruthyInt(cpu) /\ (Val(cpu) < MinCpu \/ Val(cpu) > MaxCpu)
    THEN Some(MCPError("INVALID_PARAMETER", <<"T", "h", "e", " ", "C", "P", "U", " ", "c", "o", "u", "n", "t", " ", "m", "u", "s", "t", " ", "b", "e", " ", "w", "i", "t", "h", "i", "n", " ", "1", "-", "1", "2", "8", ":", " ">> \o IntStr(Val(cpu)),
                       Some("cpu"), "bring the CPU count into the valid range", None))
    ELSE IF TruthyInt(memory) /\ (Val(memory) < MinMemoryMb \/ Val(memory) > MaxMemoryMb)
    THEN Some(MCPError("INVALID_PARAMETER", <<"T", "h", "e", " ", "m", "e", "m", "o", "r", "y", " ", "s", "i", "z", "e", " ", "m", "u", "s", "t", " ", "b", "e", " ", "w", "i", "t", "h", "i", "n", " ", "5", "1", "2", "M", "B", "-", "1", "T", "B", ":", " ">> \o IntStr(Val(memory)) \o <<"M", "B">>,
                       Some("memory"), "bring the memory size into the valid range", None))
    ELSE None

----------------------------------------------------------------------------
(* The remote inventory, in the enumeration order of the container views *)

GBinKB == 1048576   \* 1024 * 1024

Disk(key, gb) == [type |-> "VirtualDisk", key |-> key, capacityInKB |-> gb * GBinKB]
Nic(key) == [type |-> "VirtualEthernetCard", key |-> key, capacityInKB |-> 0]
Cdrom(key) == [type |-> "VirtualCdrom", key |-> key, capacityInKB |-> 0]

\* vim.VirtualMachine: two templates (the second without a NIC) and two VMs
\* (the second without a disk and without a NIC)
VirtualMachines == <<
    [ name |-> UbuntuTpl, moId |-> "vm-11", template |-> TRUE,  guestId |-> GuestUbuntu,
      devices |-> <<Disk(2000, 20), Nic(4000)>>, parent |-> "group-v3", host |-> 1 ],
    [ name |-> WinTpl,    moId |-> "vm-12", template |-> TRUE,  guestId |-> GuestWindows,
      devices |-> <<Cdrom(3000), Disk(2000, 60)>>, parent |-> "group-v3", host |-> 1 ],
    [ name |-> Db01,      moId |-> "vm-21", template |-> FALSE, guestId |-> GuestUbuntu,
      devices |-> <<Cdrom(3000), Disk(2000, 40), Disk(2001, 100), Nic(4000), Nic(4001)>>,
      parent |-> "group-v4", host |-> 1 ],
    [ name |-> Bare01,    moId |-> "vm-22", template |-> FALSE, guestId |-> GuestUbuntu,
      devices |-> <<Cdrom(3000)>>, parent |-> "group-v4", host |-> 2 ] >>

VmIds == 1..Len(VirtualMachines)
RunnableVms == {i \in VmIds : ~VirtualMachines[i].template}

PowerStates == {"poweredOn", "poweredOff", "suspended"}

\* vim.ClusterComputeResource, each with its root resource pool
Clusters == <<
    [ name |-> Cluster01, moId |-> "domain-c7", resourcePool |-> "resgroup-8" ],
    [ name |-> Cluster02, moId |-> "domain-c9", resourcePool |-> "resgroup-10" ] >>

\* vim.HostSystem: the second host is standalone (its parent is no cluster)
Hosts == <<
    [ name |-> <<"e", "s", "x", "-", "0", "1">>, moId |-> "host-1", cluster |-> 1 ],
    [ name |-> <<"e", "s", "x", "-", "0", "2">>, moId |-> "host-2", cluster |-> 0 ] >>

\* vim.ResourcePool: parent is a pool index, or 0 with the owning cluster
ResourcePools == <<
    [ name |-> Resources, moId |-> "resgroup-8",  parent |-> 0, cluster |-> 1 ],
    [ name |-> PoolA,     moId |-> "resgroup-20", parent |-> 1, cluster |-> 0 ],
    [ name |-> Resources, moId |-> "resgroup-10", parent |-> 0, cluster |-> 2 ] >>

\* vim.Folder
Folders == <<
    [ name |-> <<"v", "m">>,           moId |-> "group-v2", parent |-> 0, vmFolder |-> TRUE ],
    [ name |-> FolderTemplates, moId |-> "group-v3", parent |-> 1, vmFolder |-> TRUE ],
    [ name |-> FolderProd,      moId |-> "group-v4", parent |-> 1, vmFolder |-> TRUE ],
    [ name |-> <<"h", "o", "s", "t">>,         moId |-> "group-h5", parent |-> 0, vmFolder |-> FALSE ] >>

\* vim.Network (standard) and vim.dvs.DistributedVirtualPortgroup
Networks == <<
    [ name |-> VmNetwork, moId |-> "network-30", dvs |-> FALSE ] >>
Portgroups == <<
    [ name |-> DvsPg, moId |-> "dvportgroup-40", dvs |-> TRUE ] >>

\* the moId the platform gives the task it creates
TaskMoId == <<"t", "a", "s", "k", "-", "5", "0", "1">>

----------------------------------------------------------------------------
(* Faults: a remote interaction of the call raises *)

\* the call's fault: the stage whose remote interaction raises, if any, and
\* the message of what it raises
Fault(c) == IF c.fault = None THEN None ELSE Some([at |-> Val(c.fault), msg |-> c.fault_msg])
FaultAt(fault, stage) == fault # None /\ Val(fault).at = stage
FaultExc(fault) == Exc("vmodl.MethodFault", Val(fault).msg)

----------------------------------------------------------------------------
(* client/vsphere.py: VSphereClient *)

\* a lookup that falls back to the first object of the view when no object
\* carries the name
find_object_by_name_or_first(name, view) ==
    IF \E i \in 1..Len(view) : view[i].name = name
    THEN Some(CHOOSE i \in 1..Len(view) :
                /\ view[i].name = name
                /\ \A j \in 1..(i - 1) : view[j].name # name)
    ELSE IF view # <<>> THEN Some(1) ELSE None

\* find_object_by_name: the first object of the view whose name matches
find_object_by_name(name, view) ==
    IF \E i \in 1..Len(view) : view[i].name = name
    THEN Some(CHOOSE i \in 1..Len(view) :
                /\ view[i].name = name
                /\ \A j \in 1..(i - 1) : view[j].name # name)
    ELSE None

\* the first device of the given type in vm.config.hardware.device
FirstDevice(devices, type) ==
    IF \E i \in 1..Len(devices) : devices[i].type = type
    THEN Some(devices[CHOOSE i \in 1..Len(devices) :
                /\ devices[i].type = type
                /\ \A j \in 1..(i - 1) : devices[j].type # type])
    ELSE None

\* the target network: the standard networks first, then the portgroups
FindNetwork(network_name) ==
    LET std == find_object_by_name(network_name, Networks)
        pg  == find_object_by_name(network_name, Portgroups)
    IN  IF std # None THEN Some(Networks[Val(std)])
        ELSE IF pg # None THEN Some(Portgroups[Val(pg)])
        ELSE None

\* the backing built for a NIC bound to the network
Backing(network, network_name) ==
    IF network.dvs
    THEN [ type |-> "DistributedVirtualPortBackingInfo", portgroupKey |-> network.moId,
           network |-> None, deviceName |-> None ]
    ELSE [ type |-> "NetworkBackingInfo", portgroupKey |-> None,
           network |-> Some(network.moId), deviceName |-> Some(network_name) ]

\* _create_network_spec that keeps the template's NIC as it is when the
\* network is not found, instead of returning None
_create_network_spec_keeping_nic(template, network_name) ==
    LET network == FindNetwork(network_name)
        nic == FirstDevice(template.devices, "VirtualEthernetCard")
    IN  IF nic = None THEN None
        ELSE Some([ operation |-> "edit", device |-> Val(nic).key,
                    backing |-> IF network = None THEN None
                                ELSE Some(Backing(Val(network), network_name)),
                    connectable |-> Some([ startConnected |-> TRUE,
                                           allowGuestControl |-> TRUE,
                                           connected |-> TRUE ]),
                    capacityInKB |-> None ])

\* _create_network_spec(template, network_name)
_create_network_spec(template, network_name) ==
    LET network == FindNetwork(network_name)
        nic == FirstDevice(template.devices, "VirtualEthernetCard")
    IN  IF network = None THEN None
        ELSE IF nic = None THEN None
        ELSE Some([ operation |-> "edit", device |-> Val(nic).key,
                    backing |-> Some(Backing(Val(network), network_name)),
                    connectable |-> Some([ startConnected |-> TRUE,
                                           allowGuestControl |-> TRUE,
                                           connected |-> TRUE ]),
                    capacityInKB |-> None ])

DefaultSubnetMask == <<"2", "5", "5", ".", "2", "5", "5", ".", "2", "5", "5", ".", "0">>

\* a customization spec whose OS branch follows the caller's password
_create_customization_spec_os_by_password(is_windows, hostname, domain, ip_address, subnet_mask, gateway, dns_servers, password) ==
    [ globalIPSettings |->
        [ dnsServerList |-> IF dns_servers # None /\ Val(dns_servers) # <<>>
                            THEN dns_servers ELSE None,
          dnsSuffixList |-> IF TruthyStr(domain) THEN Some(<<Val(domain)>>) ELSE None ],
      identity |->
        IF is_windows \/ TruthyStr(password)
        THEN [ type |-> "Sysprep",
               computerName |-> hostname,
               password |-> IF TruthyStr(password) THEN password ELSE None,
               joinDomain |-> IF TruthyStr(domain) THEN domain ELSE None,
               domainAdminPassword |-> IF TruthyStr(domain) /\ TruthyStr(password)
                                       THEN password ELSE None,
               joinWorkgroup |-> IF TruthyStr(domain) THEN None ELSE Some(<<"W", "O", "R", "K", "G", "R", "O", "U", "P">>),
               domain |-> None ]
        ELSE [ type |-> "LinuxPrep",
               computerName |-> hostname,
               password |-> None,
               joinDomain |-> None,
               domainAdminPassword |-> None,
               joinWorkgroup |-> None,
               domain |-> IF TruthyStr(domain) THEN domain ELSE Some(<<"l", "o", "c", "a", "l", "d", "o", "m", "a", "i", "n">>) ],
      nicSettingMap |->
        IF TruthyStr(ip_address)
        THEN [ ip |-> "FixedIp", ipAddress |-> ip_address,
               subnetMask |-> IF TruthyStr(subnet_mask) THEN subnet_mask
                              ELSE Some(DefaultSubnetMask),
               gateway |-> IF TruthyStr(gateway) THEN Some(<<Val(gateway)>>) ELSE None ]
        ELSE [ ip |-> "DhcpIp", ipAddress |-> None, subnetMask |-> None, gateway |-> None ] ]

\* _create_customization_spec
_create_customization_spec(is_windows, hostname, domain, ip_address, subnet_mask, gateway, dns_servers, password) ==
    [ globalIPSettings |->
        [ dnsServerList |-> IF dns_servers # None /\ Val(dns_servers) # <<>>
                            THEN dns_servers ELSE None,
          dnsSuffixList |-> IF TruthyStr(domain) THEN Some(<<Val(domain)>>) ELSE None ],
      identity |->
        IF is_windows
        THEN [ type |-> "Sysprep",
               computerName |-> hostname,
               password |-> IF TruthyStr(password) THEN password ELSE None,
               joinDomain |-> IF TruthyStr(domain) THEN domain ELSE None,
               domainAdminPassword |-> IF TruthyStr(domain) /\ TruthyStr(password)
                                       THEN password ELSE None,
               joinWorkgroup |-> IF TruthyStr(domain) THEN None ELSE Some(<<"W", "O", "R", "K", "G", "R", "O", "U", "P">>),
               domain |-> None ]
        ELSE [ type |-> "LinuxPrep",
               computerName |-> hostname,
               password |-> None,
               joinDomain |-> None,
               domainAdminPassword |-> None,
               joinWorkgroup |-> None,
               domain |-> IF TruthyStr(domain) THEN domain ELSE Some(<<"l", "o", "c", "a", "l", "d", "o", "m", "a", "i", "n">>) ],
      nicSettingMap |->
        IF TruthyStr(ip_address)
        THEN [ ip |-> "FixedIp", ipAddress |-> ip_address,
               subnetMask |-> IF TruthyStr(subnet_mask) THEN subnet_mask
                              ELSE Some(DefaultSubnetMask),
               gateway |-> IF TruthyStr(gateway) THEN Some(<<Val(gateway)>>) ELSE None ]
        ELSE [ ip |-> "DhcpIp", ipAddress |-> None, subnetMask |-> None, gateway |-> None ] ]

\* What a client method yields to the tool: (task_id, error), with the remote
\* interactions it performed and the specs it handed to the submit call
Outcome(task, error, made, subm) ==
    [ task |-> task, error |-> error, calls |-> made, submitted |-> subm ]

\* the except handler making the thrown submit a second time before it answers
CaughtRetrying(e, op, made, subm) ==
    Outcome(None, Some(parse_vsphere_error(e, op)), made, subm \o subm)

\* `except Exception as e: return None, parse_vsphere_error(e, op)`
Caught(e, op, made, subm) == Outcome(None, Some(parse_vsphere_error(e, op)), made, subm)

\* the task id lost: an empty string
TaskIdEmpty == <<>>

\* f"task-{task._moId}"
TaskId == <<"t", "a", "s", "k", "-">> \o TaskMoId

\* clone_vm: every return is reached inside the try block
clone_vm(c) ==
    LET f == Fault(c)
        template == find_object_by_name(c.template_name, VirtualMachines)
        cluster == find_object_by_name(c.cluster_name, Clusters)
        named_pool == find_object_by_name(Val(c.resource_pool_name), ResourcePools)
        named_folder == find_object_by_name(Val(c.folder_name), Folders)
        tpl == VirtualMachines[Val(template)]
        resource_pool == IF TruthyStr(c.resource_pool_name)
                         THEN ResourcePools[Val(named_pool)].moId
                         ELSE Clusters[Val(cluster)].resourcePool
        folder == IF TruthyStr(c.folder_name)
                  THEN Folders[Val(named_folder)].moId
                  ELSE tpl.parent
        with_network == TruthyStr(c.network_name)
        network_spec == _create_network_spec(tpl, Val(c.network_name))
        device_changes == IF with_network THEN <<Val(network_spec)>> ELSE <<>>
        config_changes == TruthyInt(c.cpu) \/ TruthyInt(c.memory_mb) \/ with_network
        config_spec == [ numCPUs |-> IF TruthyInt(c.cpu) THEN c.cpu ELSE None,
                         memoryMB |-> IF TruthyInt(c.memory_mb) THEN c.memory_mb ELSE None,
                         deviceChange |-> IF device_changes # <<>>
                                          THEN Some(device_changes) ELSE None ]
        customize == \/ TruthyStr(c.ip_address) \/ TruthyStr(c.hostname)
                     \/ TruthyStr(c.password) \/ TruthyStr(c.domain)
        is_windows == Contains(Lower(tpl.guestId), <<"w", "i", "n">>)
        customization_spec ==
            _create_customization_spec(
                is_windows,
                IF TruthyStr(c.hostname) THEN Val(c.hostname) ELSE c.vm_name,
                c.domain, c.ip_address, c.subnet_mask, c.gateway, c.dns_servers,
                c.password)
        clone_spec == [ location |-> [pool |-> resource_pool],
                        powerOn |-> TRUE,
                        template |-> FALSE,
                        config |-> IF config_changes THEN Some(config_spec) ELSE None,
                        customization |-> IF customize THEN Some(customization_spec)
                                          ELSE None ]
        invoked == <<[ method |-> "Clone", on |-> tpl.moId, folder |-> Some(folder),
                       name |-> Some(c.vm_name), spec |-> clone_spec ]>>
        m1 == <<"find_template">>
        m2 == m1 \o <<"find_cluster">>
        m3 == m2 \o <<"resource_pool">>
        m4 == m3 \o <<"folder">>
        m5 == IF with_network THEN m4 \o <<"network">> ELSE m4
        m6 == IF customize THEN m5 \o <<"guestId">> ELSE m5
        m7 == m6 \o <<"Clone">>
    IN  IF FaultAt(f, "find_template") THEN Caught(FaultExc(f), OpCloneVm, m1, <<>>)
        ELSE IF template = None
        THEN Outcome(None, Some(MCPError("RESOURCE_NOT_FOUND",
                 <<"T", "e", "m", "p", "l", "a", "t", "e", " ", "'">> \o c.template_name \o <<"'", " ", "d", "o", "e", "s", " ", "n", "o", "t", " ", "e", "x", "i", "s", "t">>,
                 Some("template_name"), "use describeTemplates to list the templates",
                 Some(<<TOOL_DESCRIBE_TEMPLATES>>))), m1, <<>>)
        ELSE IF FaultAt(f, "find_cluster") THEN Caught(FaultExc(f), OpCloneVm, m2, <<>>)
        ELSE IF cluster = None
        THEN Outcome(None, Some(MCPError("RESOURCE_NOT_FOUND",
                 <<"C", "l", "u", "s", "t", "e", "r", " ", "'">> \o c.cluster_name \o <<"'", " ", "d", "o", "e", "s", " ", "n", "o", "t", " ", "e", "x", "i", "s", "t">>,
                 Some("cluster_name"), "use describeClusters to list the clusters",
                 Some(<<TOOL_DESCRIBE_CLUSTERS>>))), m2, <<>>)
        ELSE IF FaultAt(f, "resource_pool") THEN Caught(FaultExc(f), OpCloneVm, m3, <<>>)
        ELSE IF TruthyStr(c.resource_pool_name) /\ named_pool = None
        THEN Outcome(None, Some(MCPError("RESOURCE_NOT_FOUND",
                 <<"R", "e", "s", "o", "u", "r", "c", "e", " ", "p", "o", "o", "l", " ", "'">> \o Val(c.resource_pool_name) \o <<"'", " ", "d", "o", "e", "s", " ", "n", "o", "t", " ", "e", "x", "i", "s", "t">>,
                 Some("resource_pool_name"),
                 "use describeResourcePools to list the resource pools",
                 Some(<<TOOL_DESCRIBE_RESOURCE_POOLS>>))), m3, <<>>)
        ELSE IF FaultAt(f, "folder") THEN Caught(FaultExc(f), OpCloneVm, m4, <<>>)
        ELSE IF TruthyStr(c.folder_name) /\ named_folder = None
        THEN Outcome(None, Some(MCPError("RESOURCE_NOT_FOUND",
                 <<"F", "o", "l", "d", "e", "r", " ", "'">> \o Val(c.folder_name) \o <<"'", " ", "d", "o", "e", "s", " ", "n", "o", "t", " ", "e", "x", "i", "s", "t">>,
                 Some("folder_name"), "use describeFolders to list the folders",
                 Some(<<TOOL_DESCRIBE_FOLDERS>>))), m4, <<>>)
        ELSE IF with_network /\ FaultAt(f, "network")
        THEN Caught(FaultExc(f), OpCloneVm, m5, <<>>)
        ELSE IF with_network /\ network_spec = None
        THEN Outcome(None, Some(MCPError("RESOURCE_NOT_FOUND",
                 <<"N", "e", "t", "w", "o", "r", "k", " ", "'">> \o Val(c.network_name) \o <<"'", " ", "d", "o", "e", "s", " ", "n", "o", "t", " ", "e", "x", "i", "s", "t", " ", "o", "r", " ", "c", "a", "n", "n", "o", "t", " ", "b", "e", " ", "c", "o", "n", "f", "i", "g", "u", "r", "e", "d">>,
                 Some("network_name"), "use describeNetworks to list the networks",
                 Some(<<TOOL_DESCRIBE_NETWORKS>>))), m5, <<>>)
        ELSE IF customize /\ FaultAt(f, "guestId")
        THEN Caught(FaultExc(f), OpCloneVm, m6, <<>>)
        ELSE IF FaultAt(f, "Clone") THEN Caught(FaultExc(f), OpCloneVm, m7, invoked)
        ELSE Outcome(Some(TaskId), None, m7, invoked)

\* get_vm_power_state(vm_name): the connected check stands before the try block
get_vm_power_state(c, connected, power) ==
    LET f == Fault(c)
        vm == find_object_by_name(c.vm_name, VirtualMachines)
        m1 == <<"find_vm">>
        m2 == m1 \o <<"powerState">>
    IN  IF ~connected THEN [raised |-> Some(MCPErrorPositional), out |-> None]
        ELSE [ raised |-> None, out |-> Some(
            IF FaultAt(f, "find_vm") THEN Caught(FaultExc(f), OpGetVmPowerState, m1, <<>>)
            ELSE IF vm = None THEN Caught(MCPErrorPositional, OpGetVmPowerState, m1, <<>>)
            ELSE IF FaultAt(f, "powerState")
            THEN Caught(FaultExc(f), OpGetVmPowerState, m2, <<>>)
            ELSE Outcome(Some(power[Val(vm)]), None, m2, <<>>)) ]

\* reconfigure_vm: the connected check stands before the try block; inside
\* it, every MCPError is built positionally and every raise is caught
reconfigure_vm(c, connected, power, attribute_error) ==
    LET f == Fault(c)
        vm == find_object_by_name(c.vm_name, VirtualMachines)
        devices == VirtualMachines[Val(vm)].devices
        with_disk == c.disk_size_gb # None
        with_network == TruthyStr(c.network_name)
        disk == FirstDevice(devices, "VirtualDisk")
        grows == with_disk /\ Val(c.disk_size_gb) * GBinKB > Val(disk).capacityInKB
        disk_spec == [ operation |-> "edit", device |-> Val(disk).key, backing |-> None,
                       connectable |-> None,
                       capacityInKB |-> Some(Val(c.disk_size_gb) * GBinKB) ]
        nic == FirstDevice(devices, "VirtualEthernetCard")
        target_network == FindNetwork(Val(c.network_name))
        nic_spec == [ operation |-> "edit", device |-> Val(nic).key,
                      backing |-> Some(Backing(Val(target_network), Val(c.network_name))),
                      connectable |-> None, capacityInKB |-> None ]
        device_changes == (IF grows THEN <<disk_spec>> ELSE <<>>)
                          \o (IF with_network THEN <<nic_spec>> ELSE <<>>)
        changed == c.cpu # None \/ c.memory_mb # None \/ grows \/ with_network
        config_spec == [ numCPUs |-> c.cpu,
                         memoryMB |-> c.memory_mb,
                         deviceChange |-> IF device_changes # <<>>
                                          THEN Some(device_changes) ELSE None ]
        invoked == <<[ method |-> "ReconfigVM_Task", on |-> VirtualMachines[Val(vm)].moId,
                       folder |-> None, name |-> None, spec |-> config_spec ]>>
        m1 == <<"find_vm">>
        m2 == m1 \o <<"powerState">>
        m3 == IF with_disk THEN m2 \o <<"disk_devices">> ELSE m2
        m4 == IF with_network THEN m3 \o <<"nic_devices">> ELSE m3
        m5 == IF with_network THEN m4 \o <<"network">> ELSE m4
        m6 == m5 \o <<"ReconfigVM_Task">>
    IN  IF ~connected THEN [raised |-> Some(MCPErrorPositional), out |-> None]
        ELSE [ raised |-> None, out |-> Some(
            IF FaultAt(f, "find_vm") THEN Caught(FaultExc(f), OpReconfigureVm, m1, <<>>)
            ELSE IF vm = None THEN Caught(MCPErrorPositional, OpReconfigureVm, m1, <<>>)
            ELSE IF FaultAt(f, "powerState")
            THEN Caught(FaultExc(f), OpReconfigureVm, m2, <<>>)
            ELSE IF power[Val(vm)] # "poweredOff"
            THEN Caught(attribute_error, OpReconfigureVm, m2, <<>>)
            ELSE IF c.cpu # None /\ Val(c.cpu) <= 0
            THEN Caught(MCPErrorPositional, OpReconfigureVm, m2, <<>>)
            ELSE IF c.memory_mb # None /\ Val(c.memory_mb) <= 0
            THEN Caught(MCPErrorPositional, OpReconfigureVm, m2, <<>>)
            ELSE IF with_disk /\ Val(c.disk_size_gb) <= 0
            THEN Caught(MCPErrorPositional, OpReconfigureVm, m2, <<>>)
            ELSE IF with_disk /\ FaultAt(f, "disk_devices")
            THEN Caught(FaultExc(f), OpReconfigureVm, m3, <<>>)
            ELSE IF with_disk /\ disk = None
            THEN Caught(MCPErrorPositional, OpReconfigureVm, m3, <<>>)
            ELSE IF with_disk /\ Val(c.disk_size_gb) * GBinKB < Val(disk).capacityInKB
            THEN Caught(MCPErrorPositional, OpReconfigureVm, m3, <<>>)
            ELSE IF with_network /\ FaultAt(f, "nic_devices")
            THEN Caught(FaultExc(f), OpReconfigureVm, m4, <<>>)
            ELSE IF with_network /\ nic = None
            THEN Caught(MCPErrorPositional, OpReconfigureVm, m4, <<>>)
            ELSE IF with_network /\ FaultAt(f, "network")
            THEN Caught(FaultExc(f), OpReconfigureVm, m5, <<>>)
            ELSE IF with_network /\ target_network = None
            THEN Caught(MCPErrorPositional, OpReconfigureVm, m5, <<>>)
            ELSE IF ~changed THEN Caught(MCPErrorPositional, OpReconfigureVm, m5, <<>>)
            ELSE IF FaultAt(f, "ReconfigVM_Task")
            THEN Caught(FaultExc(f), OpReconfigureVm, m6, invoked)
            ELSE Outcome(Some(TaskId), None, m6, invoked)) ]

----------------------------------------------------------------------------
(* client/vsphere.py: the global client *)

\* int(s) succeeds on a decimal literal; anything else raises ValueError
IsIntLiteral(s) == s # <<>> /\ \A i \in 1..Len(s) : \E d \in 1..Len(DigitSeq) : DigitSeq[d] = s[i]

\* is_connected with its test inverted (`is None`)
is_connected_inverted(client) == client._connection = None

\* VSphereClient.is_connected
is_connected(client) == client._connection # None

\* What get_vsphere_client yields: (client, error) or a propagated exception,
\* with the global and the remote sessions as it leaves them
Acquired(client, error, raised, cached, cl, sess, made) ==
    [ client |-> client, error |-> error, raised |-> raised,
      _vsphere_client |-> cached, clients |-> cl, sessions |-> sess, calls |-> made ]

get_vsphere_client(environ, connect_raises) ==
    LET id == Len(clients) + 1
        reuse == _vsphere_client # None /\ is_connected(clients[Val(_vsphere_client)])
    IN  IF environ.VSPHERE_PORT # None /\ ~IsIntLiteral(Val(environ.VSPHERE_PORT))
        THEN Acquired(None, None,
                 Some(Exc("ValueError", <<"i", "n", "v", "a", "l", "i", "d", " ", "l", "i", "t", "e", "r", "a", "l", " ", "f", "o", "r", " ", "i", "n", "t", "(", ")", " ", "w", "i", "t", "h", " ", "b", "a", "s", "e", " ", "1", "0", ":", " ", "'">>
                                        \o Val(environ.VSPHERE_PORT) \o <<"'">>)),
                 _vsphere_client, clients, sessions, <<"get_vsphere_client">>)
        ELSE IF ~TruthyStr(environ.VSPHERE_HOST) \/ ~TruthyStr(environ.VSPHERE_USERNAME)
                \/ ~TruthyStr(environ.VSPHERE_PASSWORD)
        THEN Acquired(None,
                 Some(MCPError("MISSING_PARAMETER", <<"T", "h", "e", " ", "v", "S", "p", "h", "e", "r", "e", " ", "c", "o", "n", "n", "e", "c", "t", "i", "o", "n", " ", "s", "e", "t", "t", "i", "n", "g", "s", " ", "a", "r", "e", " ", "i", "n", "c", "o", "m", "p", "l", "e", "t", "e">>,
                     None, "set VSPHERE_HOST, VSPHERE_USERNAME, VSPHERE_PASSWORD", None)),
                 None, _vsphere_client, clients, sessions, <<"get_vsphere_client">>)
        ELSE IF reuse
        THEN Acquired(_vsphere_client, None, None, _vsphere_client, clients, sessions,
                 <<"get_vsphere_client">>)
        ELSE IF ~PYVMOMI_AVAILABLE
        THEN Acquired(None,
                 Some(MCPError("DEPENDENCY_MISSING", <<"T", "h", "e", " ", "p", "y", "v", "m", "o", "m", "i", " ", "l", "i", "b", "r", "a", "r", "y", " ", "i", "s", " ", "n", "o", "t", " ", "i", "n", "s", "t", "a", "l", "l", "e", "d">>,
                     None, "run 'pip install pyvmomi'", None)),
                 None, None, Append(clients, [_connection |-> None]), sessions,
                 <<"get_vsphere_client">>)
        ELSE IF connect_raises # None
        THEN Acquired(None,
                 Some(parse_vsphere_error(Exc("Exception", Val(connect_raises)), OpConnect)),
                 None, None, Append(clients, [_connection |-> None]), sessions,
                 <<"get_vsphere_client", "SmartConnect">>)
        ELSE Acquired(Some(id), None, None, Some(id),
                 Append(clients, [_connection |-> Some(id)]), sessions \cup {id},
                 <<"get_vsphere_client", "SmartConnect">>)

\* whether this acquisition constructs a new VSphereClient
Connects(environ) ==
    /\ environ.VSPHERE_PORT = None \/ IsIntLiteral(Val(environ.VSPHERE_PORT))
    /\ TruthyStr(environ.VSPHERE_HOST) /\ TruthyStr(environ.VSPHERE_USERNAME)
    /\ TruthyStr(environ.VSPHERE_PASSWORD)
    /\ ~(_vsphere_client # None /\ is_connected(clients[Val(_vsphere_client)]))

----------------------------------------------------------------------------
(* tools/lifecycle.py, tools/query.py: the exposed operations *)

\* What a handler call does: its result and the state it leaves
Effect(res, cached, cl, sess, made, subm) ==
    [ result |-> res, _vsphere_client |-> cached, clients |-> cl, sessions |-> sess,
      calls |-> made, submitted |-> subm ]

\* a return before get_vsphere_client is called
Early(res) == Effect(res, _vsphere_client, clients, sessions, <<>>, <<>>)

\* `client, error = get_vsphere_client(); if error: return MCPResult(...)`
AcquireFailed(acq) ==
    Effect(IF acq.raised # None THEN Propagated(Val(acq.raised))
           ELSE MCPResult(FALSE, None, PyMCPError(Val(acq.error)), None),
           acq._vsphere_client, acq.clients, acq.sessions, acq.calls, <<>>)

\* the rest of a handler, run with the acquired client
After(acq, res, out) ==
    Effect(res, acq._vsphere_client, acq.clients, acq.sessions,
           acq.calls \o out.calls, out.submitted)

create_vm_from_template(c) ==
    LET acq == get_vsphere_client(c.environ, c.connect_raises)
        out == clone_vm(c)
        result_data ==
            [ vm_name |-> c.vm_name,
              status  |-> "creation_started",
              message |-> <<"V", "M", " ", "'">> \o c.vm_name \o <<"'", " ", "c", "r", "e", "a", "t", "i", "o", "n", " ", "r", "e", "q", "u", "e", "s", "t", " ", "s", "u", "b", "m", "i", "t", "t", "e", "d">>,
              task_id |-> out.task,
              details |->
                [ template |-> c.template_name, cluster |-> c.cluster_name,
                  cpu |-> c.cpu, memory_mb |-> c.memory_mb,
                  folder |-> c.folder_name, resource_pool |-> c.resource_pool_name,
                  network |-> IF TruthyStr(c.network_name) THEN c.network_name ELSE None,
                  customization |->
                      IF TruthyStr(c.ip_address) \/ TruthyStr(c.hostname)
                         \/ TruthyStr(c.password)
                      THEN Some("enabled") ELSE None,
                  ip |-> IF TruthyStr(c.ip_address) THEN c.ip_address ELSE None ] ]
    IN  IF validate_vm_name(c.vm_name) # None
        THEN Early(MCPResult(FALSE, None, PyMCPError(Val(validate_vm_name(c.vm_name))), None))
        ELSE IF validate_template_name(c.template_name) # None
        THEN Early(MCPResult(FALSE, None,
                 PyMCPError(Val(validate_template_name(c.template_name))), None))
        ELSE IF validate_cluster_name(c.cluster_name) # None
        THEN Early(MCPResult(FALSE, None,
                 PyMCPError(Val(validate_cluster_name(c.cluster_name))), None))
        ELSE IF validate_network_name(c.network_name) # None
        THEN Early(MCPResult(FALSE, None,
                 PyMCPError(Val(validate_network_name(c.network_name))), None))
        ELSE IF validate_cpu_memory(c.cpu, c.memory_mb) # None
        THEN Early(MCPResult(FALSE, None,
                 PyMCPError(Val(validate_cpu_memory(c.cpu, c.memory_mb))), None))
        ELSE IF acq.raised # None \/ acq.error # None THEN AcquireFailed(acq)
        ELSE IF out.error # None
        THEN After(acq, MCPResult(FALSE, None, PyMCPError(Val(out.error)), None), out)
        ELSE After(acq, MCPResult(TRUE, Some(result_data), PyNone, out.task), out)

tool_reconfigure_vm(c, attribute_error) ==
    LET acq == get_vsphere_client(c.environ, c.connect_raises)
        run == reconfigure_vm(c, is_connected(acq.clients[Val(acq.client)]), powerState,
                              attribute_error)
        out == Val(run.out)
        result_data ==
            [ vm_name |-> c.vm_name,
              status  |-> "reconfiguration_started",
              message |-> <<"V", "M", " ", "'">> \o c.vm_name \o <<"'", " ", "c", "o", "n", "f", "i", "g", "u", "r", "a", "t", "i", "o", "n", " ", "u", "p", "d", "a", "t", "e", " ", "r", "e", "q", "u", "e", "s", "t", " ", "s", "u", "b", "m", "i", "t", "t", "e", "d">>,
              task_id |-> out.task,
              details |->
                [ cpu |-> IF TruthyInt(c.cpu) THEN c.cpu ELSE None,
                  memory_mb |-> IF TruthyInt(c.memory_mb) THEN c.memory_mb ELSE None,
                  disk_size_gb |-> IF TruthyInt(c.disk_size_gb) THEN c.disk_size_gb ELSE None,
                  network_name |-> IF TruthyStr(c.network_name) THEN c.network_name
                                   ELSE None ] ]
    IN  IF c.cpu = None /\ c.memory_mb = None /\ c.disk_size_gb = None
           /\ c.network_name = None
        THEN Early(MCPResult(FALSE, None,
                 PyStr(<<"P", "l", "e", "a", "s", "e", " ", "s", "p", "e", "c", "i", "f", "y", " ", "a", "t", " ", "l", "e", "a", "s", "t", " ", "o", "n", "e", " ", "c", "o", "n", "f", "i", "g", "u", "r", "a", "t", "i", "o", "n", " ", "t", "o", " ", "c", "h", "a", "n", "g", "e", ":", " ", "c", "p", "u", ",", " ", "m", "e", "m", "o", "r", "y", "_", "m", "b", ",", " ", "d", "i", "s", "k", "_", "s", "i", "z", "e", "_", "g", "b", ",", " ", "o", "r", " ", "n", "e", "t", "w", "o", "r", "k", "_", "n", "a", "m", "e">>),
                 None))
        ELSE IF validate_cpu_memory(c.cpu, c.memory_mb) # None
        THEN Early(MCPResult(FALSE, None,
                 PyMCPError(Val(validate_cpu_memory(c.cpu, c.memory_mb))), None))
        ELSE IF acq.raised # None \/ acq.error # None THEN AcquireFailed(acq)
        ELSE IF run.raised # None
        THEN Effect(Propagated(Val(run.raised)), acq._vsphere_client, acq.clients,
                    acq.sessions, acq.calls, <<>>)
        ELSE IF out.error # None
        THEN After(acq, MCPResult(FALSE, None, PyMCPError(Val(out.error)), None), out)
        ELSE After(acq, MCPResult(TRUE, Some(result_data), PyNone, out.task), out)

tool_get_vm_power_state(c) ==
    LET acq == get_vsphere_client(c.environ, c.connect_raises)
        run == get_vm_power_state(c, is_connected(acq.clients[Val(acq.client)]), powerState)
        out == Val(run.out)
        state == Val(out.task)
    IN  IF acq.raised # None \/ acq.error # None THEN AcquireFailed(acq)
        ELSE IF run.raised # None
        THEN Effect(Propagated(Val(run.raised)), acq._vsphere_client, acq.clients,
                    acq.sessions, acq.calls, <<>>)
        ELSE IF out.error # None
        THEN After(acq, MCPResult(FALSE, None, PyMCPError(Val(out.error)), None), out)
        ELSE After(acq, MCPResult(TRUE,
                 Some([ vm_name |-> c.vm_name, power_state |-> state,
                        can_reconfigure |-> (state = "poweredOff") ]),
                 PyNone, None), out)

----------------------------------------------------------------------------
(* client/vsphere.py: the listings *)

\* _get_host_cluster: the host's parent when it is a cluster, else None
_get_host_cluster(h) ==
    IF Hosts[h].cluster # 0 THEN Some(Clusters[Hosts[h].cluster]) ELSE None

\* _get_vm_cluster: through the VM's running host
_get_vm_cluster(i) ==
    IF VirtualMachines[i].host # 0 THEN _get_host_cluster(VirtualMachines[i].host) ELSE None

\* _get_resource_pool_cluster: the nearest cluster up the parent chain
RECURSIVE _get_resource_pool_cluster(_)
_get_resource_pool_cluster(p) ==
    IF ResourcePools[p].parent # 0 THEN _get_resource_pool_cluster(ResourcePools[p].parent)
    ELSE IF ResourcePools[p].cluster # 0 THEN Some(Clusters[ResourcePools[p].cluster])
    ELSE None

\* `if cluster_name: ... if cluster and cluster.name != cluster_name: continue`
PassesClusterFilter(cluster_name, cluster) ==
    ~(TruthyStr(cluster_name) /\ cluster # None /\ Val(cluster).name # Val(cluster_name))

Indices(n) == [i \in 1..n |-> i]

Info(obj) == [name |-> obj.name, id |-> obj.moId]

\* One pass of a listing over the objects of a view; keep[i] is the loop
\* body's filter for object i.  `broken` names at most one object whose
\* property reads raise in this call: mode "attr" (every property but the
\* name raises) or "gone" (the name raises too, so the warning in the except
\* block raises out of the loop).  reads_attr: the loop body reads a property
\* other than the name; swallowed: its first read sits in a helper that
\* catches everything and makes the loop skip the object.
ListObjects(objs, c, keep, reads_attr, swallowed) ==
    LET n == Len(objs)
        b == c.broken
        hit == b # None /\ Val(b).index \in 1..n
        kept == SelectSeq(Indices(n),
                    LAMBDA i : /\ ~(hit /\ Val(b).index = i /\ (reads_attr \/ Val(b).mode = "gone"))
                               /\ keep[i])
    IN  IF FaultAt(Fault(c), "enumerate")
        THEN [raised |-> Some(FaultExc(Fault(c))), items |-> <<>>, calls |-> <<"enumerate">>]
        ELSE IF hit /\ Val(b).mode = "gone" /\ ~swallowed
        THEN [raised |-> Some(Exc("vmodl.fault.ManagedObjectNotFound", Val(b).msg)),
              items |-> <<>>, calls |-> <<"enumerate", "properties">>]
        ELSE [raised |-> None, items |-> [k \in 1..Len(kept) |-> Info(objs[kept[k]])],
              calls |-> IF n > 0 THEN <<"enumerate", "properties">> ELSE <<"enumerate">>]

get_templates(c) ==
    ListObjects(VirtualMachines, c,
        [i \in 1..Len(VirtualMachines) |->
            /\ VirtualMachines[i].template
            /\ PassesClusterFilter(c.cluster_name, _get_vm_cluster(i))],
        TRUE, FALSE)

get_hosts(c) ==
    ListObjects(Hosts, c,
        [i \in 1..Len(Hosts) |-> PassesClusterFilter(c.cluster_name, _get_host_cluster(i))],
        TRUE, FALSE)

get_clusters(c) ==
    ListObjects(Clusters, c, [i \in 1..Len(Clusters) |-> TRUE], TRUE, FALSE)

get_folders(c) ==
    ListObjects(Folders, c, [i \in 1..Len(Folders) |-> Folders[i].vmFolder], TRUE, TRUE)

get_resource_pools(c) ==
    ListObjects(ResourcePools, c,
        [i \in 1..Len(ResourcePools) |->
            PassesClusterFilter(c.cluster_name, _get_resource_pool_cluster(i))],
        TRUE, FALSE)

get_networks(c) ==
    ListObjects(Networks \o Portgroups, c,
        [i \in 1..Len(Networks \o Portgroups) |-> TRUE], FALSE, FALSE)

get_virtual_machines(c) ==
    ListObjects(VirtualMachines, c,
        [i \in 1..Len(VirtualMachines) |->
            /\ ~VirtualMachines[i].template
            /\ ~(TruthyStr(c.vm_name)
                 /\ ~Contains(Lower(VirtualMachines[i].name), Lower(Val(c.vm_name))))
            /\ PassesClusterFilter(c.cluster_name, _get_vm_cluster(i))],
        TRUE, FALSE)

\* a describe_* handler that disconnects the client when it is done
DescribeDisconnecting(c, listing, op) ==
    LET acq == get_vsphere_client(c.environ, c.connect_raises)
        closed == [acq.clients EXCEPT ![Val(acq.client)]._connection = None]
        left == acq.sessions \ {Val(acq.client)}
    IN  IF acq.raised # None \/ acq.error # None THEN AcquireFailed(acq)
        ELSE IF listing.raised # None
        THEN Effect(MCPResult(FALSE, None,
                        PyMCPError(parse_vsphere_error(Val(listing.raised), op)), None),
                    acq._vsphere_client, closed, left, acq.calls \o listing.calls, <<>>)
        ELSE Effect(MCPResult(TRUE, Some(listing.items), PyNone, None),
                    acq._vsphere_client, closed, left, acq.calls \o listing.calls, <<>>)

\* the shape shared by the seven describe_* handlers
Describe(c, listing, op) ==
    LET acq == get_vsphere_client(c.environ, c.connect_raises)
    IN  IF acq.raised # None \/ acq.error # None THEN AcquireFailed(acq)
        ELSE IF listing.raised # None
        THEN Effect(MCPResult(FALSE, None,
                        PyMCPError(parse_vsphere_error(Val(listing.raised), op)), None),
                    acq._vsphere_client, acq.clients, acq.sessions,
                    acq.calls \o listing.calls, <<>>)
        ELSE Effect(MCPResult(TRUE, Some(listing.items), PyNone, None),
                    acq._vsphere_client, acq.clients, acq.sessions,
                    acq.calls \o listing.calls, <<>>)

describe_templates(c) == Describe(c, get_templates(c), OpDescribeTemplates)
describe_hosts(c) == Describe(c, get_hosts(c), OpDescribeHosts)
describe_clusters(c) == Describe(c, get_clusters(c), OpDescribeClusters)
describe_folders(c) == Describe(c, get_folders(c), OpDescribeFolders)
describe_resource_pools(c) == Describe(c, get_resource_pools(c), OpDescribeResourcePools)
describe_networks(c) == Describe(c, get_networks(c), OpDescribeNetworks)
describe_vms(c) == Describe(c, get_virtual_machines(c), OpDescribeVms)

----------------------------------------------------------------------------
(* The calls the model issues *)

MaxDeviations == 2   \* a call differs from its base call in at most this many inputs
MaxClients == 2      \* VSphereClient objects constructed in one behaviour
MaxPhrases == 2      \* phrases in a studied exception message
MaxThreads == 2      \* requests inside get_vsphere_client at the same time
MaxDepth == 3        \* entities on the parent chain handed to _get_folder_path

Threads == 1..MaxThreads

\* a request that is not inside get_vsphere_client
NotAcquiring == [pc |-> "idle", session |-> None, returned |-> None]

\* every record that differs from r in at most k of the fields, each changed
\* field taking one of its alternatives
RECURSIVE Deviations(_, _, _, _)
Deviations(r, alts, fields, k) ==
    IF k = 0 \/ fields = {} THEN {r}
    ELSE LET f == CHOOSE x \in fields : TRUE
         IN  Deviations(r, alts, fields \ {f}, k)
             \cup UNION { Deviations([r EXCEPT ![f] = v], alts, fields \ {f}, k - 1)
                          : v \in alts[f] }

\* os.environ as read by the call
EnvOk == [ VSPHERE_HOST |-> Some(<<"v", "c", ".", "l", "o", "c", "a", "l">>), VSPHERE_USERNAME |-> Some(<<"a", "d", "m", "i", "n">>),
           VSPHERE_PASSWORD |-> Some(<<"s", "e", "c", "r", "e", "t">>), VSPHERE_PORT |-> None ]
EnvAlts == { [EnvOk EXCEPT !.VSPHERE_HOST = None],
             [EnvOk EXCEPT !.VSPHERE_PORT = Some(<<"4", "4", "3">>)],
             [EnvOk EXCEPT !.VSPHERE_PORT = Some(<<"h", "t", "t", "p", "s">>)] }

\* vim.fault.InvalidLogin and socket.gaierror, as str() gives them
MsgInvalidLogin == <<"C", "a", "n", "n", "o", "t", " ", "c", "o", "m", "p", "l", "e", "t", "e", " ", "l", "o", "g", "i", "n", " ", "d", "u", "e", " ", "t", "o", " ", "a", "n", " ", "i", "n", "c", "o", "r", "r", "e", "c", "t", " ", "u", "s", "e", "r", " ", "n", "a", "m", "e", " ", "o", "r", " ", "p", "a", "s", "s", "w", "o", "r", "d", ".">>
MsgNameNotKnown == <<"[", "E", "r", "r", "n", "o", " ", "-", "2", "]", " ", "N", "a", "m", "e", " ", "o", "r", " ", "s", "e", "r", "v", "i", "c", "e", " ", "n", "o", "t", " ", "k", "n", "o", "w", "n">>

\* SmartConnect raising
ConnectAlts == { Some(MsgConnReset), Some(MsgNoPermission), Some(MsgInvalidLogin),
                 Some(MsgNameNotKnown) }

Faults(stages) == { Some(s) : s \in stages }

CloneStages == { "find_template", "find_cluster", "resource_pool", "folder", "network",
                 "guestId", "Clone" }
ReconfigureStages == { "find_vm", "powerState", "disk_devices", "nic_devices", "network",
                       "ReconfigVM_Task" }
PowerStateStages == { "find_vm", "powerState" }

CloneBase ==
    [ op |-> "create_vm_from_template",
      vm_name |-> Web01, template_name |-> UbuntuTpl, cluster_name |-> Cluster01,
      cpu |-> None, memory_mb |-> None, network_name |-> None, folder_name |-> None,
      resource_pool_name |-> None, ip_address |-> None, subnet_mask |-> None,
      gateway |-> None, dns_servers |-> None, hostname |-> None, password |-> None,
      domain |-> None,
      environ |-> EnvOk, connect_raises |-> None, fault |-> None,
      fault_msg |-> MsgConnReset ]

CloneAlts ==
    [ vm_name |-> { <<>>, <<"a", "b">>, <<"w", "e", "b", " ", "0", "1">>, <<"w", "e", "b", "-", "0", "1", "\n">>, <<"a", "b", "\n">>,
                    Rep("a", MaxNameLen), Rep("a", MaxNameLen + 1) },
      template_name |-> { <<>>, WinTpl, Nope },
      cluster_name |-> { <<>>, Cluster02, Nope },
      cpu |-> { Some(0), Some(4), Some(MaxCpu + 1), Some(-1) },
      memory_mb |-> { Some(0), Some(2048), Some(MinMemoryMb - 1) },
      network_name |-> { Some(VmNetwork), Some(DvsPg), Some(Nope), Some(<<>>) },
      folder_name |-> { Some(FolderProd), Some(Nope), Some(<<>>) },
      resource_pool_name |-> { Some(PoolA), Some(Nope), Some(<<>>) },
      ip_address |-> { Some(<<"1", "0", ".", "0", ".", "0", ".", "5">>) },
      subnet_mask |-> { Some(<<"2", "5", "5", ".", "2", "5", "5", ".", "0", ".", "0">>) },
      gateway |-> { Some(<<"1", "0", ".", "0", ".", "0", ".", "1">>) },
      dns_servers |-> { Some(<<<<"1", "0", ".", "0", ".", "0", ".", "2">>>>) },
      hostname |-> { Some(<<"w", "e", "b">>), Some(<<>>) },
      password |-> { Some(<<"p", "w">>) },
      domain |-> { Some(<<"c", "o", "r", "p", ".", "l", "o", "c", "a", "l">>) },
      environ |-> EnvAlts, connect_raises |-> ConnectAlts, fault |-> Faults(CloneStages),
      fault_msg |-> {MsgTplNotFound} ]

CloneCalls == Deviations(CloneBase, CloneAlts, DOMAIN CloneAlts, MaxDeviations)

\* the current size in GB of the first disk of db-01
Db01DiskGB == Val(FirstDevice(VirtualMachines[3].devices, "VirtualDisk")).capacityInKB \div GBinKB

ReconfigureBase ==
    [ op |-> "reconfigure_vm",
      vm_name |-> Db01, cpu |-> Some(4), memory_mb |-> None, disk_size_gb |-> None,
      network_name |-> None,
      environ |-> EnvOk, connect_raises |-> None, fault |-> None,
      fault_msg |-> MsgConnReset ]

ReconfigureAlts ==
    [ vm_name |-> { Bare01, Nope },
      cpu |-> { None, Some(0), Some(-1), Some(MaxCpu + 1) },
      memory_mb |-> { Some(0), Some(2048), Some(MinMemoryMb - 1) },
      disk_size_gb |-> { Some(0), Some(Db01DiskGB - 1), Some(Db01DiskGB),
                         Some(Db01DiskGB + 1) },
      network_name |-> { Some(VmNetwork), Some(DvsPg), Some(Nope) },
      environ |-> EnvAlts, connect_raises |-> ConnectAlts,
      fault |-> Faults(ReconfigureStages), fault_msg |-> {MsgTplNotFound} ]

ReconfigureCalls ==
    Deviations(ReconfigureBase, ReconfigureAlts, DOMAIN ReconfigureAlts, MaxDeviations)

\* the two messages of ErrorType.INVALID_OPERATION's AttributeError
\* (Python up to 3.11, and from 3.12)
AttributeErrors == { Exc("AttributeError", MsgAttributeError311),
                     Exc("AttributeError", MsgAttributeError312) }

PowerStateBase ==
    [ op |-> "get_vm_power_state", vm_name |-> Db01,
      environ |-> EnvOk, connect_raises |-> None, fault |-> None,
      fault_msg |-> MsgConnReset ]
PowerStateAlts ==
    [ vm_name |-> { Bare01, Nope },
      environ |-> EnvAlts, connect_raises |-> ConnectAlts,
      fault |-> Faults(PowerStateStages), fault_msg |-> {MsgTplNotFound} ]
PowerStateCalls ==
    Deviations(PowerStateBase, PowerStateAlts, DOMAIN PowerStateAlts, MaxDeviations)

MsgGone == <<"T", "h", "e", " ", "o", "b", "j", "e", "c", "t", " ", "'", "v", "i", "m", ".", "M", "a", "n", "a", "g", "e", "d", "E", "n", "t", "i", "t", "y", ":", "x", "'", " ", "h", "a", "s", " ", "a", "l", "r", "e", "a", "d", "y", " ", "b", "e", "e", "n", " ", "d", "e", "l", "e", "t", "e", "d", " ", "o", "r", " ", "h", "a", "s", " ", "n", "o", "t", " ", "b", "e", "e", "n", " ", "c", "o", "m", "p", "l", "e", "t", "e", "l", "y", " ", "c", "r", "e", "a", "t", "e", "d">>

ListingBase(op) ==
    [ op |-> op, cluster_name |-> None, vm_name |-> None, broken |-> None,
      environ |-> EnvOk, connect_raises |-> None, fault |-> None,
      fault_msg |-> MsgConnReset ]
ListingAlts ==
    [ cluster_name |-> { Some(Cluster01), Some(Cluster02), Some(Nope) },
      vm_name |-> { Some(<<"D", "B">>), Some(Nope) },
      broken |-> { Some([index |-> i, mode |-> m, msg |-> MsgGone])
                   : i \in 1..2, m \in {"attr", "gone"} },
      environ |-> EnvAlts, connect_raises |-> ConnectAlts,
      fault |-> Faults({"enumerate"}), fault_msg |-> {MsgTplNotFound} ]
\* cluster_name is a parameter of four listings and vm_name of describe_vms only
ListingCalls(op, params) ==
    Deviations(ListingBase(op), ListingAlts,
               params \cup {"broken", "environ", "connect_raises", "fault", "fault_msg"}, MaxDeviations)

----------------------------------------------------------------------------
(* The state machine: one handler call at a time, on the invoking thread *)

Idle == call = None

\* a call that constructs a client needs room under the bound
Room(c) == Connects(c.environ) => Len(clients) < MaxClients

\* the cached client holds a connection whose session the platform no longer
\* has; is_connected, which looks at _connection only, still answers True
DeadSessionHeld ==
    /\ _vsphere_client # None
    /\ LET conn == clients[Val(_vsphere_client)]._connection
       IN  conn # None /\ Val(conn) \notin sessions

\* the settings get_vsphere_client reads are complete and the port is a number
EnvComplete(environ) ==
    /\ environ.VSPHERE_PORT = None \/ IsIntLiteral(Val(environ.VSPHERE_PORT))
    /\ TruthyStr(environ.VSPHERE_HOST) /\ TruthyStr(environ.VSPHERE_USERNAME)
    /\ TruthyStr(environ.VSPHERE_PASSWORD)

\* the first remote interaction of each operation
FirstStages == { "find_template", "find_vm", "enumerate" }

\* on a session the platform no longer has, the first remote interaction of
\* the call raises (vim.fault.NotAuthenticated)
Answers(c) == (DeadSessionHeld /\ EnvComplete(c.environ)) => c.fault \in Faults(FirstStages)

\* the handler runs to its end: what it returned or raised, the connection
\* state it left, the remote interactions it made and the tasks it submitted
Invoke(c, e) ==
    /\ Room(c)
    /\ Answers(c)
    /\ call' = Some(c)
    /\ result' = Some(e.result)
    /\ _vsphere_client' = e._vsphere_client
    /\ clients' = e.clients
    /\ sessions' = e.sessions
    /\ calls' = e.calls
    /\ submitted' = e.submitted

Unread == <<PYVMOMI_AVAILABLE, powerState, error_msg, operation, classified, acquiring, again, walking>>

CreateVmFromTemplate ==
    /\ Idle
    /\ \E c \in CloneCalls : Invoke(c, create_vm_from_template(c))
    /\ UNCHANGED Unread

ReconfigureVm ==
    /\ Idle
    /\ \E c \in ReconfigureCalls, a \in AttributeErrors :
         Invoke(c, tool_reconfigure_vm(c, a))
    /\ UNCHANGED Unread

GetVmPowerState ==
    /\ Idle
    /\ \E c \in PowerStateCalls : Invoke(c, tool_get_vm_power_state(c))
    /\ UNCHANGED Unread

DescribeTemplates ==
    /\ Idle
    /\ \E c \in ListingCalls("describe_templates", {"cluster_name"}) :
         Invoke(c, describe_templates(c))
    /\ UNCHANGED Unread

DescribeHosts ==
    /\ Idle
    /\ \E c \in ListingCalls("describe_hosts", {"cluster_name"}) :
         Invoke(c, describe_hosts(c))
    /\ UNCHANGED Unread

DescribeClusters ==
    /\ Idle
    /\ \E c \in ListingCalls("describe_clusters", {}) : Invoke(c, describe_clusters(c))
    /\ UNCHANGED Unread

DescribeFolders ==
    /\ Idle
    /\ \E c \in ListingCalls("describe_folders", {}) : Invoke(c, describe_folders(c))
    /\ UNCHANGED Unread

DescribeResourcePools ==
    /\ Idle
    /\ \E c \in ListingCalls("describe_resource_pools", {"cluster_name"}) :
         Invoke(c, describe_resource_pools(c))
    /\ UNCHANGED Unread

DescribeNetworks ==
    /\ Idle
    /\ \E c \in ListingCalls("describe_networks", {"cluster_name"}) :
         Invoke(c, describe_networks(c))
    /\ UNCHANGED Unread

DescribeVms ==
    /\ Idle
    /\ \E c \in ListingCalls("describe_vms", {"cluster_name", "vm_name"}) :
         Invoke(c, describe_vms(c))
    /\ UNCHANGED Unread

ListingOps ==
    { "describe_templates", "describe_hosts", "describe_clusters", "describe_folders",
      "describe_resource_pools", "describe_networks", "describe_vms" }

\* the handler a listing call names
Listing(c) ==
    CASE c.op = "describe_templates" -> describe_templates(c)
      [] c.op = "describe_hosts" -> describe_hosts(c)
      [] c.op = "describe_clusters" -> describe_clusters(c)
      [] c.op = "describe_folders" -> describe_folders(c)
      [] c.op = "describe_resource_pools" -> describe_resource_pools(c)
      [] c.op = "describe_networks" -> describe_networks(c)
      [] c.op = "describe_vms" -> describe_vms(c)

\* the caller issues the listing call it has just made once more, with the
\* same filters, the platform being as it was
Repeat ==
    /\ call # None
    /\ again = None
    /\ Val(call).op \in ListingOps
    /\ \E c \in {Val(call)} : \E e \in {Listing(c)} :
           /\ Room(c)
           /\ Answers(c)
           /\ again' = Some([result |-> e.result, calls |-> e.calls,
                             submitted |-> e.submitted])
           /\ _vsphere_client' = e._vsphere_client
           /\ clients' = e.clients
           /\ sessions' = e.sessions
    /\ UNCHANGED <<PYVMOMI_AVAILABLE, powerState, call, result, calls, submitted,
                   error_msg, operation, classified, acquiring, walking>>

\* the caller takes the result; the next call may start
Deliver ==
    /\ ~Idle
    /\ call' = None
    /\ result' = None
    /\ calls' = <<>>
    /\ submitted' = <<>>
    /\ again' = None
    /\ UNCHANGED <<PYVMOMI_AVAILABLE, _vsphere_client, clients, sessions, powerState,
                   error_msg, operation, classified, acquiring, walking>>

\* VSphereClient.disconnect on the cached client.  pyVim's Disconnect may
\* raise, and then _connection keeps its value; whether the platform closed
\* the session before raising is not known to the client
Disconnect ==
    /\ Idle
    /\ _vsphere_client # None
    /\ LET id == Val(_vsphere_client)
       IN  /\ clients[id]._connection # None
           /\ \E raises \in BOOLEAN, closed \in BOOLEAN :
                /\ ~raises => closed
                /\ clients' = IF raises THEN clients
                              ELSE [clients EXCEPT ![id]._connection = None]
                /\ sessions' = IF closed THEN sessions \ {Val(clients[id]._connection)}
                               ELSE sessions
    /\ UNCHANGED <<PYVMOMI_AVAILABLE, _vsphere_client, powerState, call, result, calls,
                   submitted, error_msg, operation, classified, acquiring, again, walking>>

\* the platform ends a session on its side (idle timeout, restart, an
\* administrator); nothing in the client changes
SessionExpires ==
    /\ Idle
    /\ \E id \in sessions : sessions' = sessions \ {id}
    /\ UNCHANGED <<PYVMOMI_AVAILABLE, _vsphere_client, clients, powerState, call, result,
                   calls, submitted, error_msg, operation, classified, acquiring, again, walking>>

\* the platform changes a VM's power state (an operator, or another client)
PowerStateChange ==
    /\ Idle
    /\ \E i \in RunnableVms, s \in PowerStates :
         /\ powerState[i] # s
         /\ powerState' = [powerState EXCEPT ![i] = s]
    /\ UNCHANGED <<PYVMOMI_AVAILABLE, _vsphere_client, clients, sessions, call, result,
                   calls, submitted, error_msg, operation, classified, acquiring, again, walking>>

Init ==
    /\ PYVMOMI_AVAILABLE \in BOOLEAN
    /\ _vsphere_client = None
    /\ clients = <<>>
    /\ sessions = {}
    /\ powerState = [i \in VmIds |-> "poweredOff"]
    /\ call = None
    /\ result = None
    /\ calls = <<>>
    /\ submitted = <<>>
    /\ error_msg = <<>>
    /\ operation = <<>>
    /\ classified = None
    /\ acquiring = [t \in Threads |-> NotAcquiring]
    /\ again = None
    /\ walking = None

Next ==
    \/ CreateVmFromTemplate
    \/ ReconfigureVm
    \/ GetVmPowerState
    \/ DescribeTemplates
    \/ DescribeHosts
    \/ DescribeClusters
    \/ DescribeFolders
    \/ DescribeResourcePools
    \/ DescribeNetworks
    \/ DescribeVms
    \/ Repeat
    \/ Deliver
    \/ Disconnect
    \/ SessionExpires
    \/ PowerStateChange

Spec == Init /\ [][Next]_vars

----------------------------------------------------------------------------
(* The classifier on its own: parse_vsphere_error over messages and contexts *)

Phrases == { <<"C", "o", "n", "n", "e", "c", "t", "i", "o", "n", " ", "r", "e", "f", "u", "s", "e", "d">>, <<"T", "I", "M", "E", "O", "U", "T">>, <<"P", "e", "r", "m", "i", "s", "s", "i", "o", "n", " ", "d", "e", "n", "i", "e", "d">>, <<"n", "o", " ", "a", "c", "c", "e", "s", "s">>,
             <<"U", "n", "a", "u", "t", "h", "o", "r", "i", "z", "e", "d">>, <<"T", "e", "m", "p", "l", "a", "t", "e", " ", "x", "y", "z", " ", "n", "o", "t", " ", "f", "o", "u", "n", "d">>, <<"d", "o", "e", "s", " ", "N", "o", "t", " ", "E", "x", "i", "s", "t">>,
             <<"I", "n", "s", "u", "f", "f", "i", "c", "i", "e", "n", "t", " ", "m", "e", "m", "o", "r", "y">>, <<"q", "u", "o", "t", "a">>, <<"C", "a", "p", "a", "c", "i", "t", "y">>, <<"D", "u", "p", "l", "i", "c", "a", "t", "e", " ", "n", "a", "m", "e">>,
             <<"c", "o", "n", "f", "l", "i", "c", "t">>, <<"A", "l", "r", "e", "a", "d", "y", " ", "E", "x", "i", "s", "t", "s">>, MsgQuotaNotFound, MsgAlreadyExists,
             MsgTimeoutNotExist, MsgGeneric, MsgTypeError2, MsgAttributeError312 }

RECURSIVE MessagesOf(_)
MessagesOf(n) ==
    IF n = 0 THEN {<<>>}
    ELSE MessagesOf(n - 1)
         \cup { p \o (IF m = <<>> THEN <<>> ELSE <<";", " ">> \o m) : p \in Phrases, m \in MessagesOf(n - 1) }

Messages == MessagesOf(MaxPhrases)

Operations == { OpConnect, OpCloneVm, OpReconfigureVm, OpGetVmPowerState,
                OpDescribeTemplates, OpDescribeHosts, OpDescribeClusters,
                OpDescribeFolders, OpDescribeResourcePools, OpDescribeNetworks,
                OpDescribeVms }

Classify ==
    /\ classified = None
    /\ \E m \in Messages, op \in Operations :
         /\ error_msg' = m
         /\ operation' = op
         /\ classified' = Some(parse_vsphere_error(Exc("Exception", m), op))
    /\ UNCHANGED <<PYVMOMI_AVAILABLE, _vsphere_client, clients, sessions, powerState,
                   call, result, calls, submitted, acquiring, again, walking>>

ClassifyDone ==
    /\ classified # None
    /\ error_msg' = <<>>
    /\ operation' = <<>>
    /\ classified' = None
    /\ UNCHANGED <<PYVMOMI_AVAILABLE, _vsphere_client, clients, sessions, powerState,
                   call, result, calls, submitted, acquiring, again, walking>>

NextClassify == Classify \/ ClassifyDone

SpecClassify == Init /\ [][NextClassify]_vars

----------------------------------------------------------------------------
(* get_vsphere_client entered by several requests at once: the function
   holds no lock, so its statements interleave; the settings are complete *)

\* the session ids SmartConnect has handed out never repeat
NewSession == Cardinality(sessions) + 1

\* `_vsphere_client = VSphereClient(...)` drops the client it replaces
\* after closing that client's session
DropReplacedDisconnecting(sess, replaced) ==
    IF replaced # None /\ clients[Val(replaced)]._connection # None
    THEN sess \ {Val(clients[Val(replaced)]._connection)}
    ELSE sess

\* `_vsphere_client = VSphereClient(...)` drops the client it replaces as it
\* is: nothing calls disconnect on it, its session stays open
DropReplaced(sess, replaced) == sess

At(t, pc) == acquiring[t].pc = pc
Goto(t, pc) == acquiring' = [acquiring EXCEPT ![t].pc = pc]

RaceUnread == <<PYVMOMI_AVAILABLE, powerState, call, result, calls, submitted,
                error_msg, operation, classified, again, walking>>

\* `if _vsphere_client is None or not _vsphere_client.is_connected():`
RaceCheck ==
    \E t \in Threads :
      /\ At(t, "idle")
      /\ IF _vsphere_client = None \/ ~is_connected(clients[Val(_vsphere_client)])
         THEN Len(clients) < MaxClients /\ Goto(t, "construct")
         ELSE Goto(t, "return")
      /\ UNCHANGED <<_vsphere_client, clients, sessions>>
      /\ UNCHANGED RaceUnread

\* `_vsphere_client = VSphereClient(host, username, password, port)`
RaceConstruct ==
    \E t \in Threads :
      /\ At(t, "construct")
      /\ Len(clients) < MaxClients
      /\ clients' = Append(clients, [_connection |-> None])
      /\ _vsphere_client' = Some(Len(clients) + 1)
      /\ sessions' = DropReplaced(sessions, _vsphere_client)
      /\ Goto(t, "connect")
      /\ UNCHANGED RaceUnread

\* `error = _vsphere_client.connect()` up to the return of SmartConnect: the
\* global is read again, and it is that client, whoever stored it, that
\* connects; a None stored meanwhile by a failing request raises
\* AttributeError out of get_vsphere_client
RaceConnect ==
    \E t \in Threads :
      /\ At(t, "connect")
      /\ IF _vsphere_client = None
         THEN Goto(t, "raised") /\ UNCHANGED sessions
         ELSE IF ~PYVMOMI_AVAILABLE
         THEN Goto(t, "failed") /\ UNCHANGED sessions
         ELSE \E refused \in BOOLEAN :
                IF refused
                THEN Goto(t, "failed") /\ UNCHANGED sessions
                ELSE /\ sessions' = sessions \cup {NewSession}
                     /\ acquiring' = [acquiring EXCEPT
                            ![t] = [pc |-> "assign", session |-> Some(NewSession),
                                    returned |-> _vsphere_client]]
      /\ UNCHANGED <<_vsphere_client, clients>>
      /\ UNCHANGED RaceUnread

\* `self._connection = SmartConnect(...)`: the assignment, on the client
\* whose connect() is running
RaceAssign ==
    \E t \in Threads :
      /\ At(t, "assign")
      /\ clients' = [clients EXCEPT ![Val(acquiring[t].returned)]._connection =
                                       acquiring[t].session]
      /\ acquiring' = [acquiring EXCEPT ![t].pc = "return", ![t].returned = None]
      /\ UNCHANGED <<_vsphere_client, sessions>>
      /\ UNCHANGED RaceUnread

\* `if error: _vsphere_client = None; return None, error`
RaceFailed ==
    \E t \in Threads :
      /\ At(t, "failed")
      /\ _vsphere_client' = None
      /\ Goto(t, "done")
      /\ UNCHANGED <<clients, sessions>>
      /\ UNCHANGED RaceUnread

\* `return _vsphere_client, None`: the global as it is now
RaceReturn ==
    \E t \in Threads :
      /\ At(t, "return")
      /\ acquiring' = [acquiring EXCEPT ![t].pc = "done", ![t].returned = _vsphere_client]
      /\ UNCHANGED <<_vsphere_client, clients, sessions>>
      /\ UNCHANGED RaceUnread

\* the request ends; the thread takes the next request
RaceEnd ==
    \E t \in Threads :
      /\ At(t, "done") \/ At(t, "raised")
      /\ acquiring' = [acquiring EXCEPT ![t] = NotAcquiring]
      /\ UNCHANGED <<_vsphere_client, clients, sessions>>
      /\ UNCHANGED RaceUnread


NextRace ==
    \/ RaceCheck
    \/ RaceConstruct
    \/ RaceConnect
    \/ RaceAssign
    \/ RaceFailed
    \/ RaceReturn
    \/ RaceEnd

SpecRace == Init /\ [][NextRace]_vars

----------------------------------------------------------------------------
(* _get_folder_path on its own, statement by statement, over parent chains *)

\* the entities a parent chain is made of: folders and datacenters
Entities == { [name |-> <<"p", "r", "o", "d">>, datacenter |-> FALSE],
              [name |-> <<"v", "m">>, datacenter |-> FALSE],
              [name |-> <<"D", "C", "1">>, datacenter |-> TRUE],
              [name |-> <<"D", "a", "t", "a", "c", "e", "n", "t", "e", "r", "s">>, datacenter |-> FALSE] }

\* the parent chains: the folder first, then its parent, up to the root (the
\* empty chain is a folder argument of None); finite and without cycle
RECURSIVE ChainsOf(_)
ChainsOf(n) ==
    IF n = 0 THEN {<<>>}
    ELSE ChainsOf(n - 1) \cup { <<e>> \o ch : e \in Entities, ch \in ChainsOf(n - 1) }
Chains == ChainsOf(MaxDepth)

\* the list left in the order of the walk
NotReversed(s) == s

\* list.reverse()
Reversed(s) == [i \in 1..Len(s) |-> s[Len(s) + 1 - i]]

\* sep.join(parts)
RECURSIVE JoinWith(_, _)
JoinWith(parts, sep) ==
    IF parts = <<>> THEN <<>>
    ELSE IF Len(parts) = 1 THEN parts[1]
    ELSE parts[1] \o sep \o JoinWith(Tail(parts), sep)

\* the call: `path_parts = []; current = folder`.  raises_at names the
\* entity, if any, whose property reads raise during the walk
PathStart ==
    /\ walking = None
    /\ \E ch \in Chains : \E r \in 0..Len(ch) :
         walking' = Some([ folder |-> ch, raises_at |-> r, pc |-> "loop", current |-> 1,
                           path_parts |-> <<>>, returned |-> None ])
    /\ UNCHANGED <<PYVMOMI_AVAILABLE, _vsphere_client, clients, sessions, powerState,
                   call, result, calls, submitted, error_msg, operation, classified,
                   acquiring, again>>

\* one evaluation of the loop condition and, when it holds, of the body
PathStep ==
    /\ walking # None
    /\ Val(walking).pc = "loop"
    /\ LET w == Val(walking)
       IN  walking' = Some(
             IF w.current > Len(w.folder) \/ w.raises_at = w.current
             THEN [w EXCEPT !.pc = "return"]
             ELSE IF w.folder[w.current].datacenter
             THEN [w EXCEPT !.path_parts = Append(@, w.folder[w.current].name),
                            !.pc = "return"]
             ELSE [w EXCEPT !.path_parts = Append(@, w.folder[w.current].name),
                            !.current = @ + 1])
    /\ UNCHANGED <<PYVMOMI_AVAILABLE, _vsphere_client, clients, sessions, powerState,
                   call, result, calls, submitted, error_msg, operation, classified,
                   acquiring, again>>

\* `path_parts.reverse(); return "/" + "/".join(path_parts) if path_parts else "/"`
PathReturn ==
    /\ walking # None
    /\ Val(walking).pc = "return"
    /\ LET w == Val(walking)
       IN  walking' = Some([w EXCEPT
             !.pc = "done",
             !.returned = Some(IF w.path_parts # <<>>
                               THEN <<"/">> \o JoinWith(Reversed(w.path_parts), <<"/">>)
                               ELSE <<"/">>)])
    /\ UNCHANGED <<PYVMOMI_AVAILABLE, _vsphere_client, clients, sessions, powerState,
                   call, result, calls, submitted, error_msg, operation, classified,
                   acquiring, again>>

\* the caller has the path
PathEnd ==
    /\ walking # None
    /\ Val(walking).pc = "done"
    /\ walking' = None
    /\ UNCHANGED <<PYVMOMI_AVAILABLE, _vsphere_client, clients, sessions, powerState,
                   call, result, calls, submitted, error_msg, operation, classified,
                   acquiring, again>>

NextPath == PathStart \/ PathStep \/ PathReturn \/ PathEnd

\* a call that has started runs on: nothing in the function waits
SpecPath ==
    Init /\ [][NextPath]_vars /\ WF_vars(PathStep) /\ WF_vars(PathReturn)


----------------------------------------------------------------------------
(* The properties *)

Range(s) == { s[i] : i \in 1..Len(s) }

Req == Val(call)
Res == Val(result)
InFlight(op) == call # None /\ Req.op = op

\* the call returned a failure envelope whose error is of one of the kinds
FailsWith(kinds) ==
    /\ Res.kind = "envelope"
    /\ ~Res.success
    /\ Res.error.py = "MCPError"
    /\ Val(Res.error.v).error_type \in kinds

\* nothing was handed to the platform's Clone or ReconfigVM_Task
NothingSubmitted ==
    /\ submitted = <<>>
    /\ "Clone" \notin Range(calls)
    /\ "ReconfigVM_Task" \notin Range(calls)

\* the platform answers: the settings are complete, the SDK is present, the
\* connection can be made and no remote interaction of the call raises
PlatformUp ==
    /\ PYVMOMI_AVAILABLE
    /\ Req.environ \in {EnvOk, [EnvOk EXCEPT !.VSPHERE_PORT = Some(<<"4", "4", "3">>)]}
    /\ Req.connect_raises = None
    /\ Req.fault = None

\* the VM a reconfigure request names, when it exists
TargetVm == find_object_by_name(Req.vm_name, VirtualMachines)
SuppliesAField ==
    \/ Req.cpu # None \/ Req.memory_mb # None
    \/ Req.disk_size_gb # None \/ Req.network_name # None

\* C1: a reconfigure request on an existing VM that is not powered off,
\* whatever fields it supplies, fails with PRECONDITION_FAILED and submits
\* no reconfigure task.
C1_NotPoweredOffIsPreconditionFailed ==
    ( /\ InFlight("reconfigure_vm")
      /\ PlatformUp
      /\ SuppliesAField
      /\ validate_cpu_memory(Req.cpu, Req.memory_mb) = None
      /\ TargetVm # None
      /\ powerState[Val(TargetVm)] # "poweredOff" )
    => (FailsWith({"PRECONDITION_FAILED"}) /\ NothingSubmitted)

\* the pattern ^[A-Za-z0-9_-]{3,80}$ : 3 to 80 characters, each a letter, a
\* digit, an underscore or a hyphen
MatchesVmNamePattern(s) ==
    /\ Len(s) >= 3
    /\ Len(s) <= 80
    /\ \A i \in 1..Len(s) : s[i] \in NameChars

\* C2: a clone whose vm_name does not match ^[A-Za-z0-9_-]{3,80}$, its other
\* parameters passing their own validation, fails with INVALID_PARAMETER or
\* MISSING_PARAMETER on parameter vm_name, and neither acquires the
\* connection nor makes a remote call.
C2_BadVmNameRejectedBeforeConnecting ==
    ( /\ InFlight("create_vm_from_template")
      /\ ~MatchesVmNamePattern(Req.vm_name)
      /\ validate_template_name(Req.template_name) = None
      /\ validate_cluster_name(Req.cluster_name) = None
      /\ validate_cpu_memory(Req.cpu, Req.memory_mb) = None )
    => /\ FailsWith({"INVALID_PARAMETER", "MISSING_PARAMETER"})
       /\ Val(Res.error.v).parameter = Some("vm_name")
       /\ calls = <<>>
       /\ submitted = <<>>

\* the first virtual disk of the VM a reconfigure request names
TargetDisk == FirstDevice(VirtualMachines[Val(TargetVm)].devices, "VirtualDisk")

\* C3: a reconfigure request on a powered-off VM whose disk_size_gb is
\* positive and strictly less than the current size of the VM's first disk fails with
\* INVALID_PARAMETER, and no device change or task is submitted.
C3_ShrinkIsInvalidParameter ==
    ( /\ InFlight("reconfigure_vm")
      /\ PlatformUp
      /\ validate_cpu_memory(Req.cpu, Req.memory_mb) = None
      /\ TargetVm # None
      /\ powerState[Val(TargetVm)] = "poweredOff"
      /\ TargetDisk # None
      /\ Req.disk_size_gb # None
      /\ Val(Req.disk_size_gb) > 0
      /\ Val(Req.disk_size_gb) * GBinKB < Val(TargetDisk).capacityInKB )
    => (FailsWith({"INVALID_PARAMETER"}) /\ NothingSubmitted)

\* a resolution of the clone request does not succeed against the inventory
CloneResolutionFails ==
    LET template == find_object_by_name(Req.template_name, VirtualMachines)
    IN  \/ template = None
        \/ find_object_by_name(Req.cluster_name, Clusters) = None
        \/ /\ TruthyStr(Req.resource_pool_name)
           /\ find_object_by_name(Val(Req.resource_pool_name), ResourcePools) = None
        \/ /\ TruthyStr(Req.folder_name)
           /\ find_object_by_name(Val(Req.folder_name), Folders) = None
        \/ /\ TruthyStr(Req.network_name)
           /\ \/ FindNetwork(Val(Req.network_name)) = None
              \/ /\ template # None
                 /\ FirstDevice(VirtualMachines[Val(template)].devices,
                                "VirtualEthernetCard") = None

\* a resolution or check of the reconfigure request does not succeed
ReconfigureCheckFails ==
    \/ TargetVm = None
    \/ /\ TargetVm # None
       /\ \/ powerState[Val(TargetVm)] # "poweredOff"
          \/ Req.cpu # None /\ Val(Req.cpu) <= 0
          \/ Req.memory_mb # None /\ Val(Req.memory_mb) <= 0
          \/ Req.disk_size_gb # None /\ Val(Req.disk_size_gb) <= 0
          \/ Req.disk_size_gb # None /\ TargetDisk = None
          \/ /\ TruthyStr(Req.network_name)
             /\ \/ FirstDevice(VirtualMachines[Val(TargetVm)].devices,
                               "VirtualEthernetCard") = None
                \/ FindNetwork(Val(Req.network_name)) = None

\* C4: a clone or reconfigure request that reaches the platform and fails a
\* resolution or a check returns an error envelope, and the remote Clone or
\* ReconfigVM_Task is never invoked, whatever was staged before the failure.
C4_FailedResolutionSubmitsNothing ==
    /\ ( /\ InFlight("create_vm_from_template")
         /\ "find_template" \in Range(calls)
         /\ CloneResolutionFails )
       => (FailsWith(ErrorType) /\ NothingSubmitted)
    /\ ( /\ InFlight("reconfigure_vm")
         /\ "find_vm" \in Range(calls)
         /\ ReconfigureCheckFails )
       => (FailsWith(ErrorType) /\ NothingSubmitted)

\* a reconfigure that staged a valid cpu and then failed on its network
C4_Witness ==
    /\ InFlight("reconfigure_vm")
    /\ Req.cpu = Some(4)
    /\ Req.network_name = Some(Nope)
    /\ "network" \in Range(calls)
    /\ FailsWith(ErrorType)
    /\ NothingSubmitted

\* C5: every returned envelope has data and no error when success is true,
\* and a structured error record and no data when success is false.
C5_EnvelopeWellFormed ==
    (call # None /\ Res.kind = "envelope")
    => IF Res.success
       THEN Res.data # None /\ Res.error.py = "NoneType"
       ELSE /\ Res.error.py = "MCPError"
            /\ Val(Res.error.v).error_type \in ErrorType
            /\ Res.data = None

\* a failure envelope built from an error the client returned
C5_Witness ==
    /\ InFlight("reconfigure_vm")
    /\ "find_vm" \in Range(calls)
    /\ FailsWith(ErrorType)
    /\ Res.data = None

\* C6: a reconfigure request with vm_name and none of cpu, memory_mb,
\* disk_size_gb, network_name fails with MISSING_PARAMETER and submits
\* nothing.
C6_NoFieldIsMissingParameter ==
    (InFlight("reconfigure_vm") /\ ~SuppliesAField)
    => (FailsWith({"MISSING_PARAMETER"}) /\ NothingSubmitted)

\* the rule table in its stated order, on the lowercased message
EarliestRule(low) ==
    IF Contains(low, KwConnection) \/ Contains(low, KwTimeout)
    THEN "CONNECTION_ERROR"
    ELSE IF Contains(low, KwPermission) \/ Contains(low, KwAccess)
            \/ Contains(low, KwUnauthorized)
    THEN "PERMISSION_DENIED"
    ELSE IF Contains(low, KwNotFound) \/ Contains(low, KwNotExist)
    THEN "RESOURCE_NOT_FOUND"
    ELSE IF Contains(low, KwInsufficient) \/ Contains(low, KwQuota)
            \/ Contains(low, KwCapacity)
    THEN "QUOTA_EXCEEDED"
    ELSE IF Contains(low, KwDuplicate) \/ Contains(low, KwConflict)
            \/ Contains(low, KwAlreadyExists)
    THEN "INVALID_PARAMETER"
    ELSE "API_ERROR"

\* C7: the classifier returns the kind of the earliest rule, in the order
\* connection, permission, not-found, quota, duplicate, default, that the
\* lowercased message matches; a message matching none is API_ERROR and the
\* raw message is kept in the record.
C7_EarliestRuleWins ==
    classified # None
    => /\ Val(classified).error_type = EarliestRule(Lower(error_msg))
       /\ EarliestRule(Lower(error_msg)) = "API_ERROR"
          => Contains(Val(classified).message, error_msg)

\* the listing operations a suggestion may name
ListingTools ==
    { TOOL_DESCRIBE_TEMPLATES, TOOL_DESCRIBE_HOSTS, TOOL_DESCRIBE_CLUSTERS,
      TOOL_DESCRIBE_FOLDERS, TOOL_DESCRIBE_RESOURCE_POOLS, TOOL_DESCRIBE_NETWORKS }

\* C8: a message that contains 'not found' or 'not exist' and none of the
\* connection and permission keywords is RESOURCE_NOT_FOUND with a parameter
\* name and a listing operation, for every operation context; 'Template xyz
\* not found' under 'clone_vm' has parameter template_name.
C8_NotFoundForEveryContext ==
    ( /\ classified # None
      /\ EarliestRule(Lower(error_msg)) = "RESOURCE_NOT_FOUND" )
    => /\ Val(classified).error_type = "RESOURCE_NOT_FOUND"
       /\ Val(classified).parameter # None
       /\ Val(classified).related_tools # None
       /\ Range(Val(Val(classified).related_tools)) \cap ListingTools # {}
       /\ (error_msg = MsgTplNotFound /\ operation = OpCloneVm)
          => Val(classified).parameter = Some("template_name")

\* C9: no exposed operation ends by raising; whatever is raised inside it is
\* returned as a failure envelope.
C9_NoOperationRaises ==
    call # None => Res.kind = "envelope"

\* C10: at most one connection is open at any time; a call opens a
\* connection only when no client is cached or the cached client reports not
\* connected, and a call that finds a connected cached client keeps that
\* client, constructs no other and opens nothing.
C10_AtMostOneConnection ==
    /\ [](Cardinality(sessions) <= 1)
    /\ [][ (call = None /\ call' # None)
           => LET live == /\ _vsphere_client # None
                          /\ is_connected(clients[Val(_vsphere_client)])
              IN  /\ "SmartConnect" \in Range(calls') => ~live
                  /\ live => /\ _vsphere_client' = _vsphere_client
                             /\ clients' = clients
                             /\ sessions' = sessions ]_vars

\* the second client, made after a disconnect, is reused by a later call
C10_Witness ==
    /\ call # None
    /\ Res.kind = "envelope"
    /\ Res.success
    /\ calls # <<>>
    /\ "SmartConnect" \notin Range(calls)
    /\ _vsphere_client = Some(2)
    /\ sessions = {2}

\* the call was handed a client: it went on to a remote interaction
HandedClient ==
    /\ call # None
    /\ Range(calls) \ {"get_vsphere_client", "SmartConnect"} # {}

\* C11: acquire never hands a request a dead connection: whenever a call is
\* handed the client, the cached client holds a connection whose session is
\* live on the platform (a connection that died, by disconnect or on the
\* platform's side, was replaced by a fresh one).
C11_NeverHandsDeadConnection ==
    HandedClient
    => /\ _vsphere_client # None
       /\ clients[Val(_vsphere_client)]._connection # None
       /\ Val(clients[Val(_vsphere_client)]._connection) \in sessions

\* the call stopped at the acquisition: get_vsphere_client ran and no remote
\* interaction followed it
AcquireFailedInCall ==
    /\ call # None
    /\ "get_vsphere_client" \in Range(calls)
    /\ ~HandedClient

\* C12: a failed acquire, the connection settings being complete, returns
\* an error of kind CONNECTION_ERROR (unreachable endpoint, rejected login,
\* failed name resolution) or DEPENDENCY_MISSING (library absent) and of no
\* other kind, and leaves no client cached.
C12_FailedAcquireKinds ==
    (AcquireFailedInCall /\ EnvComplete(Req.environ))
    => /\ FailsWith({"CONNECTION_ERROR", "DEPENDENCY_MISSING"})
       /\ _vsphere_client = None

\* the session request t opened in its acquisition, once it has one
OpenedBy(t) == acquiring[t].session

ValidatorAnswers ==
    << validate_vm_name(Req.vm_name),
       validate_template_name(Req.template_name),
       validate_cluster_name(Req.cluster_name),
       validate_network_name(Req.network_name),
       validate_cpu_memory(Req.cpu, None),
       validate_cpu_memory(None, Req.memory_mb) >>

\* the parameter each answer names (the memory check calls its parameter
\* "memory")
ValidatedParameters ==
    << "vm_name", "template_name", "cluster_name", "network_name", "cpu", "memory" >>

Failing == { i \in 1..Len(ValidatorAnswers) : ValidatorAnswers[i] # None }
FirstFailing == CHOOSE i \in Failing : \A j \in Failing : i <= j

ComputeOutOfRange ==
    \/ Req.cpu # None /\ (Val(Req.cpu) < MinCpu \/ Val(Req.cpu) > MaxCpu)
    \/ Req.memory_mb # None
       /\ (Val(Req.memory_mb) < MinMemoryMb \/ Val(Req.memory_mb) > MaxMemoryMb)

\* the checks that come before the compute check pass
ReachesComputeCheck ==
    \/ /\ InFlight("create_vm_from_template")
       /\ MatchesVmNamePattern(Req.vm_name)
       /\ validate_vm_name(Req.vm_name) = None
       /\ validate_template_name(Req.template_name) = None
       /\ validate_cluster_name(Req.cluster_name) = None
       /\ validate_network_name(Req.network_name) = None
    \/ /\ InFlight("reconfigure_vm")
       /\ SuppliesAField

\* C15: a clone or reconfigure request whose cpu is present and outside
\* [1,128], or whose memory_mb is present and outside [512,1048576], zero and
\* negative values included, fails with INVALID_PARAMETER without contacting
\* the platform; a request whose present values are in range passes the
\* check.
C15_ComputeRangeEnforced ==
    ReachesComputeCheck
    => IF ComputeOutOfRange
       THEN FailsWith({"INVALID_PARAMETER"}) /\ calls = <<>> /\ submitted = <<>>
       ELSE calls # <<>>

\* the optional parameters of a clone request
CloneOptions ==
    { "cpu", "memory_mb", "network_name", "folder_name", "resource_pool_name",
      "ip_address", "subnet_mask", "gateway", "dns_servers", "hostname", "password",
      "domain" }

\* a clone request of the three required names only, all valid and resolvable
PlainClone ==
    /\ InFlight("create_vm_from_template")
    /\ \A f \in CloneOptions : Req[f] = None
    /\ MatchesVmNamePattern(Req.vm_name)
    /\ find_object_by_name(Req.template_name, VirtualMachines) # None
    /\ find_object_by_name(Req.cluster_name, Clusters) # None

\* C16: a clone request of a valid vm_name, template_name and cluster_name
\* only, the names resolvable and the platform answering on a live
\* connection, returns success with a non-empty data.task_id equal to
\* request_id, and the one clone spec it submits has no compute override, no
\* device change and no guest customization.
C16_PlainCloneSucceeds ==
    (PlainClone /\ PlatformUp)
    => /\ Res.kind = "envelope"
       /\ Res.success
       /\ Val(Res.data).task_id # None
       /\ Val(Val(Res.data).task_id) # <<>>
       /\ Res.request_id = Val(Res.data).task_id
       /\ Len(submitted) = 1
       /\ submitted[1].method = "Clone"
       /\ submitted[1].spec.config = None
       /\ submitted[1].spec.customization = None

\* the scenario: web-01 from ubuntu-tpl on Cluster01
C16_Witness ==
    /\ PlainClone
    /\ PlatformUp
    /\ Req.vm_name = Web01
    /\ Req.template_name = UbuntuTpl
    /\ Req.cluster_name = Cluster01
    /\ Res.success
    /\ Len(submitted) = 1
    /\ _vsphere_client # None
    /\ Val(clients[Val(_vsphere_client)]._connection) \in sessions

\* the taxonomy as the specification lists it
StatedKinds ==
    { "MISSING_PARAMETER", "INVALID_PARAMETER", "RESOURCE_NOT_FOUND",
      "PERMISSION_DENIED", "QUOTA_EXCEEDED", "DEPENDENCY_MISSING", "API_ERROR",
      "PRECONDITION_FAILED", "CONNECTION_ERROR" }

\* C17: the error of every envelope any operation returns has one of the
\* nine listed kinds, and the kinds the code declares are exactly those nine.
C17_ClosedTaxonomy ==
    /\ ErrorType = StatedKinds
    /\ (call # None /\ Res.kind = "envelope" /\ Res.error.py = "MCPError")
       => Val(Res.error.v).error_type \in StatedKinds

\* the reconfigure path that names ErrorType.INVALID_OPERATION, a member the
\* enumeration does not have: what comes back is API_ERROR
C17_Witness ==
    /\ InFlight("reconfigure_vm")
    /\ PlatformUp
    /\ TargetVm # None
    /\ powerState[Val(TargetVm)] # "poweredOff"
    /\ calls # <<>>
    /\ calls[Len(calls)] = "powerState"
    /\ FailsWith({"API_ERROR"})

\* the client listing a describe_* call runs, and the objects it goes over
ListingOf(c) ==
    CASE c.op = "describe_templates" -> get_templates(c)
      [] c.op = "describe_hosts" -> get_hosts(c)
      [] c.op = "describe_clusters" -> get_clusters(c)
      [] c.op = "describe_folders" -> get_folders(c)
      [] c.op = "describe_resource_pools" -> get_resource_pools(c)
      [] c.op = "describe_networks" -> get_networks(c)
      [] c.op = "describe_vms" -> get_virtual_machines(c)

EnumeratedBy(op) ==
    CASE op \in {"describe_templates", "describe_vms"} -> VirtualMachines
      [] op = "describe_hosts" -> Hosts
      [] op = "describe_clusters" -> Clusters
      [] op = "describe_folders" -> Folders
      [] op = "describe_resource_pools" -> ResourcePools
      [] op = "describe_networks" -> Networks \o Portgroups

\* one enumerated object fails when read in this call: every read of it
\* raises, or every read but its name does and the listing reads more than
\* the name
OneObjectFails ==
    /\ call # None
    /\ Req.op \in ListingOps
    /\ PlatformUp
    /\ Req.broken # None
    /\ Val(Req.broken).index <= Len(EnumeratedBy(Req.op))
    /\ Val(Req.broken).mode = "gone" \/ Req.op # "describe_networks"

\* the entries of the same listing with nothing failing, less the entry of
\* the failing object
EntriesOfTheOthers ==
    LET failing == EnumeratedBy(Req.op)[Val(Req.broken).index]
    IN  SelectSeq(ListingOf([Req EXCEPT !.broken = None]).items,
                  LAMBDA e : e.id # failing.moId)

\* C18: in every listing, a failure while reading one enumerated object,
\* the failure of reading its name included, skips that object only: the
\* listing returns success with the entry of every other object that passes
\* the filters.
C18_BrokenObjectSkippedOnly ==
    OneObjectFails
    => /\ Res.kind = "envelope"
       /\ Res.success
       /\ Val(Res.data) = EntriesOfTheOthers

\* a listing call is made: a first one, or the same one again
ListingStep ==
    \/ call = None /\ call' # None /\ Val(call').op \in ListingOps
    \/ again = None /\ again' # None

\* the remote interactions a listing may make
ListingReads == { "get_vsphere_client", "SmartConnect", "enumerate", "properties" }

SubmitOps == { "Clone", "ReconfigVM_Task" }

\* how many of the remote interactions of the call were submits
Submits(made) == Cardinality({ i \in 1..Len(made) : made[i] \in SubmitOps })

\* a clone or a reconfigure request is answered
Mutating == InFlight("create_vm_from_template") \/ InFlight("reconfigure_vm")

\* the submit of the call threw
SubmitThrew == Req.fault # None /\ Val(Req.fault) \in SubmitOps /\ Submits(calls) = 1

\* C20: a clone or reconfigure request invokes the submit operation at most
\* once, and exactly once when it returns success; the submit is the last
\* remote interaction of the call, so the task reference is returned right
\* after it and the task is never read afterwards; a submit that throws is
\* answered by a failure after that single attempt.
C20_SubmitAtMostOnce ==
    Mutating
    => /\ Len(submitted) <= 1
       /\ Submits(calls) = Len(submitted)
       /\ Len(submitted) = 1
          => /\ calls[Len(calls)] \in SubmitOps
             /\ submitted[1].method = calls[Len(calls)]
             /\ submitted[1].method = IF Req.op = "reconfigure_vm"
                                      THEN "ReconfigVM_Task" ELSE "Clone"
       /\ (Res.kind = "envelope" /\ Res.success)
          => /\ Len(submitted) = 1
             /\ ~SubmitThrew
             /\ Val(Res.data).task_id = Some(TaskId)
       /\ SubmitThrew
          => /\ Res.kind = "envelope"
             /\ ~Res.success
             /\ Len(submitted) = 1

\* a reconfigure whose single submit went through and returned the task id
C20_Witness ==
    /\ InFlight("reconfigure_vm")
    /\ Res.kind = "envelope"
    /\ Res.success
    /\ Len(submitted) = 1
    /\ calls[Len(calls)] = "ReconfigVM_Task"
    /\ Val(Res.data).task_id = Some(TaskId)


\* a clone request whose template and cluster resolve, on a platform that
\* answers, past the handler's validators
ClonePlaced ==
    /\ InFlight("create_vm_from_template")
    /\ PlatformUp
    /\ Failing = {}
    /\ find_object_by_name(Req.template_name, VirtualMachines) # None
    /\ find_object_by_name(Req.cluster_name, Clusters) # None

\* the objects of the view that carry the name
Named(name, view) == { i \in 1..Len(view) : view[i].name = name }

\* the request names a pool, a folder (a non-empty name)
NamesPool == TruthyStr(Req.resource_pool_name)
NamesFolder == TruthyStr(Req.folder_name)

\* the call failed with RESOURCE_NOT_FOUND for the parameter, nothing submitted
NotFoundFor(parameter) ==
    /\ FailsWith({"RESOURCE_NOT_FOUND"})
    /\ Val(Res.error.v).parameter = Some(parameter)
    /\ NothingSubmitted

\* C21: in clone, the submitted pool is a pool of the given name when
\* resource_pool_name is given, else the default pool of the resolved
\* cluster; the target folder is a folder of the given name when folder_name
\* is given, else the parent folder of the template; a given name that does
\* not resolve fails with RESOURCE_NOT_FOUND for that parameter and nothing
\* is submitted (no fall back to the default).
C21_ClonePlacement ==
    ClonePlaced
    => LET tpl == VirtualMachines[Val(find_object_by_name(Req.template_name, VirtualMachines))]
           cluster == Clusters[Val(find_object_by_name(Req.cluster_name, Clusters))]
           pools == Named(Val(Req.resource_pool_name), ResourcePools)
           folders == Named(Val(Req.folder_name), Folders)
       IN  /\ (NamesPool /\ pools = {}) => NotFoundFor("resource_pool_name")
           /\ (NamesFolder /\ folders = {} /\ ~(NamesPool /\ pools = {}))
              => NotFoundFor("folder_name")
           /\ submitted # <<>>
              => /\ submitted[1].method = "Clone"
                 /\ submitted[1].on = tpl.moId
                 /\ IF NamesPool
                    THEN \E p \in pools :
                           submitted[1].spec.location.pool = ResourcePools[p].moId
                    ELSE submitted[1].spec.location.pool = cluster.resourcePool
                 /\ IF NamesFolder
                    THEN \E g \in folders : submitted[1].folder = Some(Folders[g].moId)
                    ELSE submitted[1].folder = Some(tpl.parent)

\* a clone into a named pool with the folder left to the template's parent
C21_Witness ==
    /\ ClonePlaced
    /\ Req.resource_pool_name = Some(PoolA)
    /\ Req.folder_name = None
    /\ Len(submitted) = 1
    /\ submitted[1].spec.location.pool = "resgroup-20"
    /\ submitted[1].folder = Some("group-v3")
    /\ Res.kind = "envelope"
    /\ Res.success

\* the compute fields of the spec a clone or a reconfigure submitted: clone
\* carries them in the config of its clone spec, when it has one
SubmittedCompute ==
    LET spec == submitted[1].spec
    IN  IF submitted[1].method = "ReconfigVM_Task"
        THEN [numCPUs |-> spec.numCPUs, memoryMB |-> spec.memoryMB]
        ELSE IF spec.config = None THEN [numCPUs |-> None, memoryMB |-> None]
        ELSE [numCPUs |-> Val(spec.config).numCPUs, memoryMB |-> Val(spec.config).memoryMB]

\* C22: the spec a clone or a reconfigure submits sets exactly the compute
\* fields the request provides, with the values provided: cpu alone leaves
\* memory unset, memory_mb alone leaves cpu unset, and with neither the
\* clone stages no compute change.
C22_ComputeFieldsAsProvided ==
    (Mutating /\ submitted # <<>> /\ MatchesVmNamePattern(Req.vm_name))
    => /\ SubmittedCompute.numCPUs = Req.cpu
       /\ SubmittedCompute.memoryMB = Req.memory_mb
       /\ ( /\ Req.cpu = None /\ Req.memory_mb = None
            /\ submitted[1].method = "Clone"
            /\ ~TruthyStr(Req.network_name) )
          => submitted[1].spec.config = None

\* the fields whose presence turns guest customization on
CustomizationTriggers == { "ip_address", "hostname", "password", "domain" }

\* the request gives (a non-empty value for) one of the fields
GivesAnyOf(fields) == \E f \in fields : TruthyStr(Req[f])

\* a clone was handed to the platform
CloneSubmitted == InFlight("create_vm_from_template") /\ submitted # <<>>

\* the template of the clone that was submitted
SubmittedTemplate ==
    VirtualMachines[CHOOSE i \in VmIds : VirtualMachines[i].moId = submitted[1].on]

\* C23: a submitted clone carries a customization payload exactly when one of
\* ip_address, hostname, password, domain is given (so subnet_mask, gateway
\* and dns_servers alone attach none); its NIC setting is a fixed address
\* with the given or the default mask and the given gateway when ip_address
\* is given, and DHCP otherwise; its identity is the Windows one exactly when
\* the template's guest identifier contains "win", whatever the caller sent.
C23_CustomizationTrigger ==
    CloneSubmitted
    => LET cust == submitted[1].spec.customization
           nic == Val(cust).nicSettingMap
       IN  /\ cust # None <=> GivesAnyOf(CustomizationTriggers)
           /\ cust # None
              => /\ IF TruthyStr(Req.ip_address)
                    THEN /\ nic.ip = "FixedIp"
                         /\ nic.ipAddress = Req.ip_address
                         /\ nic.subnetMask = IF TruthyStr(Req.subnet_mask)
                                             THEN Req.subnet_mask
                                             ELSE Some(DefaultSubnetMask)
                         /\ nic.gateway = IF TruthyStr(Req.gateway)
                                          THEN Some(<<Val(Req.gateway)>>) ELSE None
                    ELSE /\ nic.ip = "DhcpIp"
                         /\ nic.ipAddress = None
                         /\ nic.subnetMask = None
                         /\ nic.gateway = None
                 /\ Val(cust).identity.type
                      = IF Contains(Lower(SubmittedTemplate.guestId), <<"w", "i", "n">>)
                        THEN "Sysprep" ELSE "LinuxPrep"

\* a clone of the Linux template with a password only: customized, DHCP, and
\* the Linux identity although a password came with the request
C23_Witness ==
    /\ CloneSubmitted
    /\ Req.template_name = UbuntuTpl
    /\ Req.password # None
    /\ ~GivesAnyOf(CustomizationTriggers \ {"password"})
    /\ submitted[1].spec.customization # None
    /\ Val(submitted[1].spec.customization).identity.type = "LinuxPrep"
    /\ Val(submitted[1].spec.customization).nicSettingMap.ip = "DhcpIp"

\* the clone spec clone_vm submits for the request on the same platform, if any
SpecSubmittedFor(c) ==
    LET out == clone_vm(c)
    IN  IF out.submitted = <<>> THEN None ELSE Some(out.submitted[1].spec)

\* the template the request names is a Linux one
LinuxTemplateNamed ==
    LET template == find_object_by_name(Req.template_name, VirtualMachines)
    IN  /\ template # None
        /\ ~Contains(Lower(VirtualMachines[Val(template)].guestId), <<"w", "i", "n">>)

\* C24: for a Linux template the password has no effect: a clone request and
\* the same request without its password submit identical clone specs.
C24_LinuxPasswordHasNoEffect ==
    ( /\ CloneSubmitted
      /\ PlatformUp
      /\ MatchesVmNamePattern(Req.vm_name)
      /\ LinuxTemplateNamed
      /\ TruthyStr(Req.password) )
    => SpecSubmittedFor([Req EXCEPT !.password = None]) = Some(submitted[1].spec)

\* the first object of the view that carries the name, if any
FirstNamed(name, view) ==
    IF Named(name, view) = {} THEN None
    ELSE Some(view[CHOOSE i \in Named(name, view) : \A j \in Named(name, view) : i <= j])

\* the network a name stands for: the first standard network of that name,
\* and only without one the first distributed portgroup of that name
NetworkNamed(name) ==
    IF FirstNamed(name, Networks) # None THEN FirstNamed(name, Networks)
    ELSE FirstNamed(name, Portgroups)

\* the source of the request: the template of a clone, the VM of a reconfigure
SourceNamed ==
    IF Req.op = "reconfigure_vm" THEN FirstNamed(Req.vm_name, VirtualMachines)
    ELSE FirstNamed(Req.template_name, VirtualMachines)

\* the device changes of the submitted spec
SubmittedDeviceChanges ==
    LET spec == submitted[1].spec
        changes == IF submitted[1].method = "ReconfigVM_Task" THEN spec.deviceChange
                   ELSE IF spec.config = None THEN None
                   ELSE Val(spec.config).deviceChange
    IN  IF changes = None THEN <<>> ELSE Val(changes)

\* the call got as far as resolving the network, on a platform that answers
ResolvesNetwork ==
    /\ Mutating
    /\ PlatformUp
    /\ TruthyStr(Req.network_name)
    /\ Range(calls) \cap {"network", "nic_devices"} # {}

\* C25: clone and reconfigure resolve a network name the same way, the first
\* standard network of that name and else the first portgroup of that name,
\* and edit the first network device of the source with a backing to it; a
\* name in neither namespace, or a source without network device, fails
\* with RESOURCE_NOT_FOUND and submits nothing.
C25_NetworkResolution ==
    ResolvesNetwork
    => LET net == NetworkNamed(Val(Req.network_name))
           nic == FirstDevice(Val(SourceNamed).devices, "VirtualEthernetCard")
           edits == { i \in 1..Len(SubmittedDeviceChanges) :
                        SubmittedDeviceChanges[i].backing # None }
       IN  IF net = None \/ nic = None
           THEN FailsWith({"RESOURCE_NOT_FOUND"}) /\ NothingSubmitted
           ELSE /\ Len(submitted) = 1
                /\ Cardinality(edits) = 1
                /\ \A i \in edits :
                     LET edit == SubmittedDeviceChanges[i]
                         backing == Val(edit.backing)
                     IN  /\ edit.operation = "edit"
                         /\ edit.device = Val(nic).key
                         /\ IF Val(net).dvs
                            THEN backing.portgroupKey = Val(net).moId
                            ELSE /\ backing.network = Some(Val(net).moId)
                                 /\ backing.deviceName = Req.network_name

\* a reconfigure request with a disk size, on a powered-off VM that has a
\* disk, the platform answering
ResizesDisk ==
    /\ InFlight("reconfigure_vm")
    /\ PlatformUp
    /\ TargetVm # None
    /\ powerState[Val(TargetVm)] = "poweredOff"
    /\ Req.disk_size_gb # None
    /\ TargetDisk # None

\* the size of the first disk in GB
CurrentSizeGB == Val(TargetDisk).capacityInKB \div GBinKB

\* the disk edits among the submitted device changes
DiskEdits ==
    { i \in 1..Len(SubmittedDeviceChanges) : SubmittedDeviceChanges[i].capacityInKB # None }

\* C26: in reconfigure on a powered-off VM, a disk_size_gb equal to the
\* current size of the first disk stages no device change and is no error:
\* with cpu given as well the request succeeds and carries no disk edit, and
\* as the only field it fails with MISSING_PARAMETER, nothing submitted; a
\* submitted reconfigure carries a disk edit exactly when the requested size
\* is larger than the current one.
C26_EqualDiskSizeIsNoChange ==
    ResizesDisk
    => /\ submitted # <<>>
          => (DiskEdits # {} <=> Val(Req.disk_size_gb) > CurrentSizeGB)
       /\ ( /\ Val(Req.disk_size_gb) = CurrentSizeGB
            /\ Req.cpu = Some(4) /\ Req.memory_mb = None /\ Req.network_name = None )
          => /\ Res.kind = "envelope"
             /\ Res.success
             /\ Len(submitted) = 1
             /\ DiskEdits = {}
       /\ ( /\ Val(Req.disk_size_gb) = CurrentSizeGB
            /\ Req.cpu = None /\ Req.memory_mb = None /\ Req.network_name = None )
          => /\ FailsWith({"MISSING_PARAMETER"})
             /\ NothingSubmitted

\* the walk in progress
Walk == Val(walking)

\* the position on the chain of the nearest datacenter, the folder itself
\* included, and the end of the chain when there is none
Boundary(ch) ==
    IF \E k \in 1..Len(ch) : ch[k].datacenter
    THEN CHOOSE k \in 1..Len(ch) :
           ch[k].datacenter /\ \A j \in 1..(k - 1) : ~ch[j].datacenter
    ELSE Len(ch)

\* the names from the boundary down to the folder
NamesDown(ch) == [i \in 1..Boundary(ch) |-> ch[Boundary(ch) + 1 - i].name]

\* "/" before each name
RECURSIVE Slashed(_)
Slashed(names) ==
    IF names = <<>> THEN <<>> ELSE <<"/">> \o Head(names) \o Slashed(Tail(names))

\* C27: _get_folder_path returns on every finite parent chain; when no read
\* raises, what it returns is "/" and the names from the nearest datacenter
\* (inclusive; the end of the chain without one) down to the folder, joined
\* with "/", so nothing above the datacenter appears; and it returns "/"
\* when no name was collected.
C27_FolderPath ==
    /\ [](( walking # None /\ Walk.returned # None /\ Walk.raises_at = 0 /\ Walk.folder # <<>> )
          => Walk.returned = Some(Slashed(NamesDown(Walk.folder))))
    /\ [](( walking # None /\ Walk.returned # None /\ Walk.path_parts = <<>> )
          => /\ Walk.returned = Some(<<"/">>)
             /\ Walk.folder = <<>> \/ Walk.raises_at = 1)
    /\ (walking # None) ~> (walking # None /\ Walk.returned # None)

\* a folder right under a datacenter that has an entity above it: the path
\* has the datacenter and the folder, what is above the datacenter is left out
C27_Witness ==
    /\ walking # None
    /\ Walk.raises_at = 0
    /\ Len(Walk.folder) = MaxDepth
    /\ Walk.folder[2].datacenter
    /\ ~Walk.folder[1].datacenter
    /\ Walk.returned # None
    /\ Len(Walk.path_parts) = 2

\* the listings that take a cluster filter
ClusterFilteredOps ==
    { "describe_templates", "describe_hosts", "describe_resource_pools", "describe_vms" }

\* a listing with a cluster filter returned its entries
ClusterFiltered ==
    /\ call # None
    /\ Req.op \in ClusterFilteredOps
    /\ TruthyStr(Req.cluster_name)
    /\ Res.kind = "envelope"
    /\ Res.success

\* the cluster the listing derives for the i-th object it enumerates
DerivedCluster(op, i) ==
    CASE op \in {"describe_templates", "describe_vms"} -> _get_vm_cluster(i)
      [] op = "describe_hosts" -> _get_host_cluster(i)
      [] op = "describe_resource_pools" -> _get_resource_pool_cluster(i)

\* the enumerated objects the returned entries stand for
ReturnedObjects ==
    { i \in 1..Len(EnumeratedBy(Req.op)) :
        \E k \in 1..Len(Val(Res.data)) : Val(Res.data)[k].id = EnumeratedBy(Req.op)[i].moId }

\* C28: with a cluster filter, every object a listing of templates, hosts,
\* resource pools or VMs returns belongs to the named cluster: its derived
\* cluster exists and has that name.
C28_ClusterFilterKeepsMembersOnly ==
    ClusterFiltered
    => \A i \in ReturnedObjects :
         /\ DerivedCluster(Req.op, i) # None
         /\ Val(DerivedCluster(Req.op, i)).name = Val(Req.cluster_name)

\* C29: a successful clone reports details.customization = "enabled" exactly
\* when a customization payload was attached to the clone spec it submitted.
C29_CustomizationReportedIffAttached ==
    ( /\ CloneSubmitted
      /\ PlatformUp
      /\ MatchesVmNamePattern(Req.vm_name)
      /\ Res.kind = "envelope"
      /\ Res.success )
    => ( Val(Res.data).details.customization = Some("enabled")
         <=> submitted[1].spec.customization # None )

\* what the client's reconfigure_vm answers, in the present state, to a
\* request that changes the cpu count of the VM the power-state read names
ReconfigureOfSameVm ==
    Val(reconfigure_vm([ReconfigureBase EXCEPT !.vm_name = Req.vm_name], TRUE, powerState,
                       Exc("AttributeError", MsgAttributeError312)).out)

\* C30: the power-state read and the reconfigure precondition agree: for a
\* VM that exists, can_reconfigure is true exactly when a reconfigure of
\* that VM in that state passes the power-state check, and for a VM name
\* that does not resolve both operations answer RESOURCE_NOT_FOUND.
C30_PowerReadAgreesWithReconfigure ==
    (InFlight("get_vm_power_state") /\ PlatformUp)
    => IF find_object_by_name(Req.vm_name, VirtualMachines) = None
       THEN /\ FailsWith({"RESOURCE_NOT_FOUND"})
            /\ ReconfigureOfSameVm.error # None
            /\ Val(ReconfigureOfSameVm.error).error_type = "RESOURCE_NOT_FOUND"
       ELSE /\ Res.kind = "envelope"
            /\ Res.success
            /\ Val(Res.data).can_reconfigure <=> ReconfigureOfSameVm.error = None

====
